---- MODULE Spec2Model ----
(***************************************************************************)
(* TalkAI backend: the authentication subsystem.                           *)
(*   services/otpService.js      one-time codes (ChallengeStore)           *)
(*   middleware/auth.js          authenticateToken, rateLimitOTP           *)
(*   services/jwtService.js      signed tokens (TokenService)              *)
(*   models/User.js              user records (CredentialStore, linking)   *)
(*   controllers/authController  the request handlers (AuthOrchestrator)   *)
(* Time is Date.now() in milliseconds.                                     *)
(***************************************************************************)
EXTENDS Integers, Sequences, FiniteSets, TLC

VARIABLES
    now,        \* Date.now(), ms
    ticks,      \* how often the clock has been advanced (bounds the run)
    otpStore,   \* OTPService.otpStore: Map email -> {otp, expiresAt, attempts}
    otpHist,    \* per email: what was issued and answered since the last issue
    otpRateLimit, \* global.otpRateLimit: Map client address -> {count, resetTime}
    rlHist,     \* per client address: the window its requests fall in, counted apart
    users,      \* the users collection: _id -> document (models/User.js)
    tokens,     \* the signed tokens handed out so far (responses and reset mail)
    spent,      \* reset tokens that completed a reset -> not issued again since?
    pwSet,      \* _id -> the plaintext most recently set as that user's password
    signedOut,  \* the tokens a sign-out was answered 200 for
    link,       \* the findOrCreateGoogleUser calls in flight, one per slot
    last        \* the most recent call and what it returned

otpVars == <<otpStore, otpHist>>
rlVars == <<otpRateLimit, rlHist>>
authVars == <<users, tokens, spent, pwSet, signedOut>>
vars == <<now, ticks, otpVars, rlVars, authVars, link, last>>

(***************************************************************************)
(* Bounds and input sets                                                   *)
(***************************************************************************)
MaxTicks == 2

\* Email strings as clients send them (Map keys are compared as strings).
OtpEmails == {"a@x.com", "A@x.com"}

\* Math.floor(100000 + Math.random() * 900000).toString(): "100000".."999999"
Codes == {"100000", "999999"}

\* What a client may submit as the code.
Candidates == Codes \cup {"000000"}

\* Clock advances offered to the one-time-code runs: one second either side of
\* the ten-minute lifetime.
OtpDeltas == {(10 * 60 * 1000) - 1000, (10 * 60 * 1000) + 1000}

MaxTokens == 2

\* Emails of the account runs; "A@x.com" and "a@x.com" differ in case only.
AuthEmails == {"a@x.com", "b@x.com"}

AllEmails == {"a@x.com", "A@x.com", "b@x.com"}

Passwords == {"secret-1", "secret-2"}

\* profile.id of the identity provider
GoogleIds == {"g-1"}

\* Clock advances offered to the account runs: one second either side of the
\* one-hour lifetime of a reset token.
AuthDeltas == {(60 * 60 * 1000) - 1000, (60 * 60 * 1000) + 1000}

\* Clock advance offered to the protected-route runs: a reset token, good for
\* one hour, is still good after one advance and expired after two.
ProtectedDeltas == {(60 * 60 * 1000) - 1000}

\* Clock advance offered to the runs with several reset requests: half a
\* second, so that two requests fall within one second of the clock of the
\* tokens after one advance and into different seconds after two.
LatestDeltas == {500}

\* Passwords submitted with a signup completion ("abc": too short).
SignupPasswords == {"secret-1", "abc"}

\* Passwords of the password life cycle: a short one, and two of 73 characters
\* that differ in the last one only.
LongPrefix == "aaaaaaaaaaaaaaaaaaaaaaaaaaaaaaaaaaaaaaaaaaaaaaaaaaaaaaaaaaaaaaaaaaaaaaaa"
PwdInputs == {"secret-1", LongPrefix \o "1", LongPrefix \o "2"}

\* Names for PUT /auth/profile ("" : a body without name).
Names == {"", "Ann"}

\* Steps of the clock around the two token lifetimes: one hour and seven days,
\* a second less and a second more.
TokenDeltas == AuthDeltas \cup {(7 * 24 * 60 * 60 * 1000) - 1000, (7 * 24 * 60 * 60 * 1000) + 1000}

\* Slots for findOrCreateGoogleUser calls that run at the same time.
Slots == {1, 2}

\* Profiles the identity provider hands over ("" : a profile without email).
LinkProfiles == {[id |-> g, email |-> e] : g \in {"g-1", "g-2"}, e \in {"a@x.com", "b@x.com", ""}}

\* Client addresses (req.ip).
Clients == {"10.0.0.1", "10.0.0.2"}

\* Clock advances offered to the rate-limiter runs: one second either side of the
\* one-minute window.
RlDeltas == {(60 * 1000) - 1000, (60 * 1000) + 1000}

(***************************************************************************)
(* JavaScript Map                                                          *)
(***************************************************************************)
MapHas(m, k) == k \in DOMAIN m

MapSet(m, k, v) == [x \in (DOMAIN m) \cup {k} |-> IF x = k THEN v ELSE m[x]]

MapDelete(m, k) == [x \in (DOMAIN m) \ {k} |-> m[x]]

EmptyMap == [x \in {} |-> 0]

(***************************************************************************)
(* The most recent call: op, its arguments, and the answer.                *)
(***************************************************************************)
\* age: for a verify, how long before the call the challenge it met was issued
\* (-1 when it met none, and for every other call).
\* A signed token (jwt.sign): the claims the checks read, and the signing key.
\* type "none" is a token without a type claim (generateToken). iat and exp are
\* in seconds. NoToken is null / undefined.
NoToken == [userId |-> 0, type |-> "null", iat |-> 0, exp |-> 0, key |-> ""]

Call(op, email, arg, status, result, age) ==
    [op |-> op, email |-> email, arg |-> arg, status |-> status, result |-> result,
     age |-> age, token |-> NoToken]

\* A verifyOTP call with the attempt counter the challenge stood at when the
\* call came in, -1 when there was none.
CallV(op, email, arg, status, result, age, attempts) ==
    [op |-> op, email |-> email, arg |-> arg, status |-> status, result |-> result,
     age |-> age, token |-> NoToken, attempts |-> attempts]

\* A signup completion that was refused, kept with the password it carried.
CallR(op, email, arg, status, result, password) ==
    [op |-> op, email |-> email, arg |-> arg, status |-> status, result |-> result,
     age |-> -1, token |-> NoToken, password |-> password]

\* A call that was handed a token.
CallT(op, email, arg, status, result, token) ==
    [op |-> op, email |-> email, arg |-> arg, status |-> status, result |-> result,
     age |-> -1, token |-> token]

\* The same for a completed registration: whether the welcome mail went out
\* is kept beside the answer (it is no part of the answer).
CallW(op, email, arg, status, result, token, welcomeOk) ==
    [op |-> op, email |-> email, arg |-> arg, status |-> status, result |-> result,
     age |-> -1, token |-> token, welcome |-> IF welcomeOk THEN "sent" ELSE "failed"]

\* The same for a call that sends a mail: whether the mail went out is kept
\* beside the answer.
CallM(op, email, arg, status, result, mailOk) ==
    [op |-> op, email |-> email, arg |-> arg, status |-> status, result |-> result,
     age |-> -1, token |-> NoToken, mail |-> IF mailOk THEN "sent" ELSE "failed"]

\* The same for a call of a protected route: the Authorization header it came
\* with is kept (its scheme and its token).
CallH(op, header, arg, status, result) ==
    [op |-> op, email |-> "", arg |-> arg, status |-> status, result |-> result,
     age |-> -1, token |-> header.token, scheme |-> header.scheme]

\* The same for a change-password request: the current password it carried is
\* kept too.
CallP(op, header, currentPassword, arg, status, result) ==
    [op |-> op, email |-> "", arg |-> arg, status |-> status, result |-> result,
     age |-> -1, token |-> header.token, scheme |-> header.scheme,
     current |-> currentPassword]

(***************************************************************************)
(* OTPService                                                              *)
(***************************************************************************)
\* Variants of storeOTP with a slip: an existing entry is kept; a five-minute
\* lifetime.
StoreOTP_KeepExisting(store, email, otp, t) ==
    IF MapHas(store, email) THEN store
    ELSE MapSet(store, email, [otp |-> otp, expiresAt |-> t + (10 * 60 * 1000), attempts |-> 0])

StoreOTP_FiveMinutes(store, email, otp, t) ==
    MapSet(store, email, [otp |-> otp, expiresAt |-> t + (5 * 60 * 1000), attempts |-> 0])

\* storeOTP(email, otp) at time t
StoreOTP(store, email, otp, t) ==
    MapSet(store, email, [otp |-> otp, expiresAt |-> t + (10 * 60 * 1000), attempts |-> 0])

\* The outcomes of verifyOTP, named after the message each one carries:
\*   NotFound  'OTP not found or expired'            valid: false
\*   Expired   'OTP has expired'                     valid: false
\*   Exhausted 'Too many failed attempts. ...'       valid: false
\*   Mismatch  'Invalid OTP'                         valid: false
\*   Verified  'OTP verified successfully'           valid: true
Outcomes == {"NotFound", "Expired", "Exhausted", "Mismatch", "Verified"}

\* Variants of verifyOTP with a slip: the code is compared before the attempt
\* limit is looked at; a verified challenge is left in the store; the attempt
\* limit is not looked at.
VerifyOTP_CompareFirst(store, email, otp, t) ==
    IF ~MapHas(store, email)
    THEN [store |-> store, outcome |-> "NotFound"]
    ELSE IF t > store[email].expiresAt
    THEN [store |-> MapDelete(store, email), outcome |-> "Expired"]
    ELSE IF store[email].otp = otp
    THEN [store |-> MapDelete(store, email), outcome |-> "Verified"]
    ELSE IF store[email].attempts >= 3
    THEN [store |-> MapDelete(store, email), outcome |-> "Exhausted"]
    ELSE [store |-> [store EXCEPT ![email].attempts = @ + 1], outcome |-> "Mismatch"]

VerifyOTP_NoDelete(store, email, otp, t) ==
    IF ~MapHas(store, email)
    THEN [store |-> store, outcome |-> "NotFound"]
    ELSE IF t > store[email].expiresAt
    THEN [store |-> MapDelete(store, email), outcome |-> "Expired"]
    ELSE IF store[email].attempts >= 3
    THEN [store |-> MapDelete(store, email), outcome |-> "Exhausted"]
    ELSE LET counted == [store EXCEPT ![email].attempts = @ + 1] IN
         IF counted[email].otp = otp
         THEN [store |-> counted, outcome |-> "Verified"]
         ELSE [store |-> counted, outcome |-> "Mismatch"]

VerifyOTP_NoLimit(store, email, otp, t) ==
    IF ~MapHas(store, email)
    THEN [store |-> store, outcome |-> "NotFound"]
    ELSE IF t > store[email].expiresAt
    THEN [store |-> MapDelete(store, email), outcome |-> "Expired"]
    ELSE LET counted == [store EXCEPT ![email].attempts = @ + 1] IN
         IF counted[email].otp = otp
         THEN [store |-> MapDelete(counted, email), outcome |-> "Verified"]
         ELSE [store |-> counted, outcome |-> "Mismatch"]

\* A variant of verifyOTP with a slip: a failed attempt is not counted.
VerifyOTP_MismatchUncounted(store, email, otp, t) ==
    IF ~MapHas(store, email)
    THEN [store |-> store, outcome |-> "NotFound"]
    ELSE IF t > store[email].expiresAt
    THEN [store |-> MapDelete(store, email), outcome |-> "Expired"]
    ELSE IF store[email].attempts >= 3
    THEN [store |-> MapDelete(store, email), outcome |-> "Exhausted"]
    ELSE IF store[email].otp = otp
    THEN [store |-> MapDelete(store, email), outcome |-> "Verified"]
    ELSE [store |-> store, outcome |-> "Mismatch"]

\* A variant of verifyOTP with a slip: the attempt limit is looked at before
\* the expiry.
VerifyOTP_LimitFirst(store, email, otp, t) ==
    IF ~MapHas(store, email)
    THEN [store |-> store, outcome |-> "NotFound"]
    ELSE IF store[email].attempts >= 3
    THEN [store |-> MapDelete(store, email), outcome |-> "Exhausted"]
    ELSE IF t > store[email].expiresAt
    THEN [store |-> MapDelete(store, email), outcome |-> "Expired"]
    ELSE LET counted == [store EXCEPT ![email].attempts = @ + 1] IN
         IF counted[email].otp = otp
         THEN [store |-> MapDelete(counted, email), outcome |-> "Verified"]
         ELSE [store |-> counted, outcome |-> "Mismatch"]

\* verifyOTP(email, otp) at time t: the store afterwards and the outcome
VerifyOTP(store, email, otp, t) ==
    IF ~MapHas(store, email)
    THEN [store |-> store, outcome |-> "NotFound"]
    ELSE IF t > store[email].expiresAt
    THEN [store |-> MapDelete(store, email), outcome |-> "Expired"]
    ELSE IF store[email].attempts >= 3
    THEN [store |-> MapDelete(store, email), outcome |-> "Exhausted"]
    ELSE LET counted == [store EXCEPT ![email].attempts = @ + 1] IN
         IF counted[email].otp = otp
         THEN [store |-> MapDelete(counted, email), outcome |-> "Verified"]
         ELSE [store |-> counted, outcome |-> "Mismatch"]

\* A variant of the cleanup pass with a slip: the comparison is turned round,
\* so the pass deletes what has not expired and keeps what has.
Cleanup_Inverted(store, t) ==
    [x \in {e \in DOMAIN store : ~(t < store[e].expiresAt)} |-> store[x]]

\* One pass of the cleanup interval at time t
Cleanup(store, t) ==
    [x \in {e \in DOMAIN store : ~(t > store[e].expiresAt)} |-> store[x]]

(***************************************************************************)
(* rateLimitOTP (middleware/auth.js)                                       *)
(***************************************************************************)
\* A variant of rateLimitOTP with a slip: the limit test is count > 3.
RateLimitOTP_OffByOne(limits, clientIP, t) ==
    LET got == IF MapHas(limits, clientIP) THEN limits[clientIP]
               ELSE [count |-> 0, resetTime |-> t + (60 * 1000)]
        clientData == IF t > got.resetTime
                      THEN [count |-> 0, resetTime |-> t + (60 * 1000)]
                      ELSE got
    IN  IF clientData.count > 3
        THEN [limits |-> limits, allowed |-> FALSE]
        ELSE [limits |-> MapSet(limits, clientIP, [clientData EXCEPT !.count = @ + 1]),
              allowed |-> TRUE]

\* A variant of rateLimitOTP with a slip: an elapsed window is not reset.
RateLimitOTP_NoReset(limits, clientIP, t) ==
    LET clientData == IF MapHas(limits, clientIP) THEN limits[clientIP]
                      ELSE [count |-> 0, resetTime |-> t + (60 * 1000)]
    IN  IF clientData.count >= 3
        THEN [limits |-> limits, allowed |-> FALSE]
        ELSE [limits |-> MapSet(limits, clientIP, [clientData EXCEPT !.count = @ + 1]),
              allowed |-> TRUE]

\* A variant of rateLimitOTP with a slip: a refused request starts the
\* client's minute anew.
RateLimitOTP_RefusalExtends(limits, clientIP, t) ==
    LET got == IF MapHas(limits, clientIP) THEN limits[clientIP]
               ELSE [count |-> 0, resetTime |-> t + (60 * 1000)]
        clientData == IF t > got.resetTime
                      THEN [count |-> 0, resetTime |-> t + (60 * 1000)]
                      ELSE got
    IN  IF clientData.count >= 3
        THEN [limits |-> MapSet(limits, clientIP,
                                [clientData EXCEPT !.resetTime = t + (60 * 1000)]),
              allowed |-> FALSE]
        ELSE [limits |-> MapSet(limits, clientIP, [clientData EXCEPT !.count = @ + 1]),
              allowed |-> TRUE]

\* rateLimitOTP for a request from clientIP at time t: the map afterwards and
\* whether next() was called (otherwise 429). The window reset writes into the
\* object held by the map; a request that is then refused would leave that
\* write behind, but a reset object has count 0 and is never refused.
RateLimitOTP(limits, clientIP, t) ==
    LET got == IF MapHas(limits, clientIP) THEN limits[clientIP]
               ELSE [count |-> 0, resetTime |-> t + (60 * 1000)]
        clientData == IF t > got.resetTime
                      THEN [count |-> 0, resetTime |-> t + (60 * 1000)]
                      ELSE got
    IN  IF clientData.count >= 3
        THEN [limits |-> limits, allowed |-> FALSE]
        ELSE [limits |-> MapSet(limits, clientIP, [clientData EXCEPT !.count = @ + 1]),
              allowed |-> TRUE]

\* The window a client's requests fall in, counted apart from the middleware
\* (an observer): a window opens with the first request that finds none open
\* and stays open for one minute; seen counts its requests (4 stands for "4 or
\* more"); refusedBefore tells whether the window before it refused a request.
NoWindow == [start |-> -1, seen |-> 0, refused |-> FALSE, refusedBefore |-> FALSE]

WindowSee(w, t) ==
    IF w.start = -1 \/ t > w.start + (60 * 1000)
    THEN [start |-> t, seen |-> 1, refused |-> FALSE, refusedBefore |-> w.refused]
    ELSE [w EXCEPT !.seen = IF @ >= 4 THEN 4 ELSE @ + 1]

WindowAnswer(w, allowed) == [w EXCEPT !.refused = @ \/ ~allowed]

(***************************************************************************)
(* User model (models/User.js)                                             *)
(***************************************************************************)
\* String.prototype.toLowerCase on the emails used here
Lower(email) == IF email = "A@x.com" THEN "a@x.com" ELSE email

\* bcryptjs reads no more of a password than its first 72 bytes.
BcryptMaxBytes == 72

\* The part of a password that bcrypt.hash and bcrypt.compare read
BcryptInput(password) ==
    IF Len(password) > BcryptMaxBytes THEN SubSeq(password, 1, BcryptMaxBytes) ELSE password

\* bcrypt.hash(password, salt): never the plaintext. (The salt is random;
\* bcrypt.compare reads it from the hash, so it does not enter the comparison.)
Hash(password) == "$2a$12$" \o BcryptInput(password)

\* null of a Date field; null of a String field is ""
NullDate == -1

\* d < t for a Date field d and the current time t (null compares as 0)
DateBefore(d, t) == IF d = NullDate THEN TRUE ELSE d < t

\* findOne({email: email.toLowerCase()}): the _id, 0 for null
FindByEmail(us, email) ==
    LET S == {i \in DOMAIN us : us[i].email = Lower(email)} IN
    IF S = {} THEN 0 ELSE CHOOSE i \in S : \A j \in S : i <= j

\* findOne({googleId}): the _id, 0 for null
FindByGoogleId(us, googleId) ==
    LET S == {i \in DOMAIN us : us[i].googleId = googleId} IN
    IF S = {} THEN 0 ELSE CHOOSE i \in S : \A j \in S : i <= j

\* findById: the _id when a document has it, 0 for null
FindById(us, id) == IF id \in DOMAIN us THEN id ELSE 0

\* A variant of the creators with a slip: isVerified is left at the schema's
\* default, false.
NewUser_Unverified(email, password, googleId, t) ==
    [email |-> Lower(email),
     password |-> IF password = "" THEN "" ELSE Hash(password),
     googleId |-> googleId,
     isVerified |-> FALSE,
     name |-> "",
     resetPasswordToken |-> NoToken,
     resetPasswordExpires |-> NullDate,
     lastLogin |-> t]

\* A new document: the schema's setters and defaults (email lowercased,
\* lastLogin: Date.now), the password hashed by the pre-save hook.
NewUser(email, password, googleId, t) ==
    [email |-> Lower(email),
     password |-> IF password = "" THEN "" ELSE Hash(password),
     googleId |-> googleId,
     isVerified |-> TRUE,
     name |-> "",
     resetPasswordToken |-> NoToken,
     resetPasswordExpires |-> NullDate,
     lastLogin |-> t]

\* A variant of the store with a slip: no unique index is enforced.
DuplicateKey_NoIndex(us, id, doc) == FALSE

\* The unique indexes (email; googleId, sparse) as the store enforces them on
\* a write of document doc under _id id: TRUE when the write is a duplicate.
DuplicateKey(us, id, doc) ==
    \E j \in DOMAIN us :
        /\ j # id
        /\ \/ us[j].email = doc.email
           \/ (doc.googleId # "" /\ us[j].googleId = doc.googleId)

\* comparePassword: bcrypt.compare(candidate, this.password)
ComparePassword(user, candidate) == user.password = Hash(candidate)

\* A JSON body can carry a number where a password is expected, as in
\* {"password": 123456}. The model writes that value as the string below,
\* which stands for no string a client can send.
NumberPassword == "<number 123456>"

\* bcrypt.compare rejects arguments that are not strings; comparePassword
\* catches that and throws Error('Password comparison failed') to its caller.
ComparePasswordThrows(user, candidate) == candidate = NumberPassword

(***************************************************************************)
(* JWTService (services/jwtService.js)                                     *)
(***************************************************************************)
\* generateToken(user) at time t: expiresIn '7d', no type claim
GenerateToken(userId, t) ==
    [userId |-> userId, type |-> "none", iat |-> t \div 1000,
     exp |-> (t \div 1000) + (7 * 24 * 60 * 60), key |-> "JWT_SECRET"]

\* generateShortToken({userId, type}, '1h') at time t
GenerateShortToken(userId, type, t) ==
    [userId |-> userId, type |-> type, iat |-> t \div 1000,
     exp |-> (t \div 1000) + (60 * 60), key |-> "JWT_SECRET"]

\* A variant of verifyToken with a slip: the expiry is not looked at.
VerifyToken_NoExpiry(token, t) == token.key = "JWT_SECRET"

\* verifyToken(token).valid at time t: the signature, and exp against the clock
\* in seconds (issuer and audience are the same in every token signed here)
VerifyToken(token, t) ==
    /\ token.key = "JWT_SECRET"
    /\ (t \div 1000) < token.exp

\* An Authorization header; scheme "" is a request without one.
NoHeader == [scheme |-> "", token |-> NoToken]

\* A variant of extractTokenFromHeader with a slip: the scheme is not looked at.
ExtractTokenFromHeader_AnyScheme(header) == header.token

\* extractTokenFromHeader: only 'Bearer <token>' yields a token
ExtractTokenFromHeader(header) ==
    IF header.scheme = "Bearer" THEN header.token ELSE NoToken

\* authenticateToken: the status it answers, 200 standing for next()
AuthenticateToken(us, header, t) ==
    LET token == ExtractTokenFromHeader(header) IN
    IF token = NoToken THEN [status |-> 401, error |-> "Access token required"]
    ELSE IF ~VerifyToken(token, t)
    THEN [status |-> 401, error |-> "Invalid or expired token"]
    ELSE IF FindById(us, token.userId) = 0
    THEN [status |-> 401, error |-> "User not found"]
    ELSE IF ~us[token.userId].isVerified
    THEN [status |-> 403, error |-> "Email not verified. Please verify your email address."]
    ELSE [status |-> 200, error |-> ""]

(***************************************************************************)
(* AuthController: password reset                                          *)
(***************************************************************************)
\* A variant of resetPassword with a slip: the reset token is left on the user
\* after the password was set.
ResetPasswordOutcome_KeepToken(us, token, newPassword, t) ==
    IF token = NoToken \/ newPassword = ""
    THEN [users |-> us, status |-> 400, error |-> "Token and new password are required"]
    ELSE IF Len(newPassword) < 6
    THEN [users |-> us, status |-> 400,
          error |-> "New password must be at least 6 characters long"]
    ELSE IF ~VerifyToken(token, t) \/ token.type # "password-reset"
    THEN [users |-> us, status |-> 400, error |-> "Invalid or expired reset token"]
    ELSE IF FindById(us, token.userId) = 0
    THEN [users |-> us, status |-> 400, error |-> "Invalid or expired reset token"]
    ELSE IF us[token.userId].resetPasswordToken # token
    THEN [users |-> us, status |-> 400, error |-> "Invalid or expired reset token"]
    ELSE IF DateBefore(us[token.userId].resetPasswordExpires, t)
    THEN [users |-> us, status |-> 400, error |-> "Reset token has expired"]
    ELSE [users |-> [us EXCEPT ![token.userId].password = Hash(newPassword)],
          status |-> 200, error |-> ""]

\* A variant of resetPassword with a slip: the expiry is left on the user.
ResetPasswordOutcome_KeepExpiry(us, token, newPassword, t) ==
    IF token = NoToken \/ newPassword = ""
    THEN [users |-> us, status |-> 400, error |-> "Token and new password are required"]
    ELSE IF Len(newPassword) < 6
    THEN [users |-> us, status |-> 400,
          error |-> "New password must be at least 6 characters long"]
    ELSE IF ~VerifyToken(token, t) \/ token.type # "password-reset"
    THEN [users |-> us, status |-> 400, error |-> "Invalid or expired reset token"]
    ELSE IF FindById(us, token.userId) = 0
    THEN [users |-> us, status |-> 400, error |-> "Invalid or expired reset token"]
    ELSE IF us[token.userId].resetPasswordToken # token
    THEN [users |-> us, status |-> 400, error |-> "Invalid or expired reset token"]
    ELSE IF DateBefore(us[token.userId].resetPasswordExpires, t)
    THEN [users |-> us, status |-> 400, error |-> "Reset token has expired"]
    ELSE [users |-> [us EXCEPT ![token.userId].password = Hash(newPassword),
                               ![token.userId].resetPasswordToken = NoToken],
          status |-> 200, error |-> ""]

\* A variant of resetPassword with a slip: the token presented is verified, but
\* neither the token nor the expiry stored on the user is looked at.
ResetPasswordOutcome_TokenOnly(us, token, newPassword, t) ==
    IF token = NoToken \/ newPassword = ""
    THEN [users |-> us, status |-> 400, error |-> "Token and new password are required"]
    ELSE IF Len(newPassword) < 6
    THEN [users |-> us, status |-> 400,
          error |-> "New password must be at least 6 characters long"]
    ELSE IF ~VerifyToken(token, t) \/ token.type # "password-reset"
    THEN [users |-> us, status |-> 400, error |-> "Invalid or expired reset token"]
    ELSE IF FindById(us, token.userId) = 0
    THEN [users |-> us, status |-> 400, error |-> "Invalid or expired reset token"]
    ELSE [users |-> [us EXCEPT ![token.userId].password = Hash(newPassword),
                               ![token.userId].resetPasswordToken = NoToken,
                               ![token.userId].resetPasswordExpires = NullDate],
          status |-> 200, error |-> ""]

\* resetPassword(token, newPassword) at time t: the users afterwards and the
\* answer
ResetPasswordOutcome(us, token, newPassword, t) ==
    IF token = NoToken \/ newPassword = ""
    THEN [users |-> us, status |-> 400, error |-> "Token and new password are required"]
    ELSE IF Len(newPassword) < 6
    THEN [users |-> us, status |-> 400,
          error |-> "New password must be at least 6 characters long"]
    ELSE IF ~VerifyToken(token, t) \/ token.type # "password-reset"
    THEN [users |-> us, status |-> 400, error |-> "Invalid or expired reset token"]
    ELSE IF FindById(us, token.userId) = 0
    THEN [users |-> us, status |-> 400, error |-> "Invalid or expired reset token"]
    ELSE IF us[token.userId].resetPasswordToken # token
    THEN [users |-> us, status |-> 400, error |-> "Invalid or expired reset token"]
    ELSE IF DateBefore(us[token.userId].resetPasswordExpires, t)
    THEN [users |-> us, status |-> 400, error |-> "Reset token has expired"]
    ELSE [users |-> [us EXCEPT ![token.userId].password = Hash(newPassword),
                               ![token.userId].resetPasswordToken = NoToken,
                               ![token.userId].resetPasswordExpires = NullDate],
          status |-> 200, error |-> ""]

\* The message of every answer of requestPasswordReset that reports success
ResetRequested == "If the email exists, a password reset link has been sent"

(***************************************************************************)
(* User.findOrCreateGoogleUser, run without interruption                   *)
(***************************************************************************)
\* The provider's profile: id and emails[0].value ("" when it carries none).
Profile(googleId, email) == [id |-> googleId, email |-> email]

\* findOrCreateGoogleUser(profile) at time t: the users afterwards and the _id
\* returned (0 when save() threw: email is required, or a duplicate key)
FindOrCreateGoogleUser(us, profile, t) ==
    LET byId == FindByGoogleId(us, profile.id)
        byEmail == IF profile.email = "" THEN 0 ELSE FindByEmail(us, profile.email)
        fresh == NewUser(profile.email, "", profile.id, t)
        id == Cardinality(DOMAIN us) + 1
    IN  IF byId # 0
        THEN [users |-> [us EXCEPT ![byId].lastLogin = t], id |-> byId]
        ELSE IF byEmail # 0
        THEN [users |-> [us EXCEPT ![byEmail].googleId = profile.id,
                                   ![byEmail].isVerified = TRUE,
                                   ![byEmail].lastLogin = t],
              id |-> byEmail]
        ELSE IF profile.email = "" \/ DuplicateKey(us, id, fresh)
        THEN [users |-> us, id |-> 0]
        ELSE [users |-> MapSet(us, id, fresh), id |-> id]

(***************************************************************************)
(* User.findOrCreateGoogleUser, await by await                             *)
(***************************************************************************)
\* A call: where it stands, its profile, the document it loaded, the _id it
\* returned (0: it threw), whether it inserted a document, and the slots whose
\* call with the same profile had returned before this one began. A slot also
\* serves a verifyOTPAndRegister call that runs await by await (kind "signup",
\* the profile holding its email, password the one submitted). status and token
\* are what the caller is answered with.
Idle == [pc |-> "idle", profile |-> [id |-> "", email |-> ""], doc |-> 0, res |-> 0,
         created |-> FALSE, after |-> {}, kind |-> "", password |-> "", status |-> 0,
         token |-> NoToken]

\* What the caller of the Google callback gets: handleOAuthSuccess answers 200
\* with a session token; an error of the verify callback goes through
\* done(error, null) to the global error handler, which answers 500.
OAuthAnswer(call, id, t) ==
    [call EXCEPT !.pc = "done", !.res = id,
                 !.status = IF id # 0 THEN 200 ELSE 500,
                 !.token = IF id # 0 THEN GenerateToken(id, t) ELSE NoToken]

\* What the caller of verifyOTPAndRegister gets once save() returned or threw:
\* 200 with a session token, or the catch block's answer to error.code 11000.
RegisterAnswer(call, id, t) ==
    [call EXCEPT !.pc = "done", !.res = id,
                 !.status = IF id # 0 THEN 200 ELSE 400,
                 !.token = IF id # 0 THEN GenerateToken(id, t) ELSE NoToken]

\* A variant of the insert with a slip: the document is written without its
\* googleId.
InsertUser_DropsGoogleId(us, doc) ==
    LET id == Cardinality(DOMAIN us) + 1 IN
    IF doc.email = "" \/ DuplicateKey(us, id, doc)
    THEN [users |-> us, id |-> 0]
    ELSE [users |-> MapSet(us, id, [doc EXCEPT !.googleId = ""]), id |-> id]

\* save() of a new document: validation (email is required; password is
\* required unless googleId is set), then the insert under the unique indexes;
\* id 0 when it threw
InsertUser(us, doc) ==
    LET id == Cardinality(DOMAIN us) + 1 IN
    IF doc.email = "" \/ (doc.password = "" /\ doc.googleId = "") \/ DuplicateKey(us, id, doc)
    THEN [users |-> us, id |-> 0]
    ELSE [users |-> MapSet(us, id, doc), id |-> id]

\* save() of the loaded document after googleId, isVerified and lastLogin were
\* set: an update of those paths under the unique indexes; id 0 when it threw
SaveLinked(us, id, googleId, t) ==
    LET doc == [us[id] EXCEPT !.googleId = googleId, !.isVerified = TRUE, !.lastLogin = t] IN
    IF DuplicateKey(us, id, doc)
    THEN [users |-> us, id |-> 0]
    ELSE [users |-> [us EXCEPT ![id] = doc], id |-> id]

(***************************************************************************)
(* What each email has seen since its last issue (observers, not program   *)
(* state): when the stored challenge was issued (-1 once it is gone), the   *)
(* code issued last, the code that issue replaced, the run of Mismatch      *)
(* answers, and how often Verified was answered.                            *)
(***************************************************************************)
NoHist == [issuedAt |-> -1, latest |-> "", prev |-> "", mism |-> 0, wins |-> 0]

HistIssue(h, otp, t) ==
    [issuedAt |-> t, latest |-> otp, prev |-> h.latest, mism |-> 0, wins |-> 0]

HistVerify(h, outcome, kept) ==
    [h EXCEPT !.mism = IF outcome = "Mismatch" THEN @ + 1 ELSE 0,
              !.wins = IF outcome = "Verified" THEN @ + 1 ELSE @,
              !.issuedAt = IF kept THEN @ ELSE -1]

HistSweep(h, kept) == [h EXCEPT !.issuedAt = IF kept THEN @ ELSE -1]

(***************************************************************************)
(* Initial state: a fresh process                                          *)
(***************************************************************************)
Init ==
    /\ now = 0
    /\ ticks = 0
    /\ otpStore = EmptyMap
    /\ otpHist = [e \in AllEmails |-> NoHist]
    /\ otpRateLimit = EmptyMap
    /\ rlHist = [k \in Clients |-> NoWindow]
    /\ users = EmptyMap
    /\ tokens = {}
    /\ spent = EmptyMap
    /\ pwSet = EmptyMap
    /\ signedOut = {}
    /\ link = [p \in Slots |-> Idle]
    /\ last = Call("init", "", "", 0, "", -1)

(***************************************************************************)
(* Actions on the one-time-code service                                    *)
(***************************************************************************)
\* generateOTP() then storeOTP(email, otp), as sendOTP does
IssueCode(email, otp) ==
    /\ otpStore' = StoreOTP(otpStore, email, otp, now)
    /\ otpHist' = [otpHist EXCEPT ![email] = HistIssue(@, otp, now)]
    /\ last' = Call("issue", email, otp, 200, "Stored", -1)
    /\ UNCHANGED <<now, ticks, rlVars, authVars, link>>

VerifyCode(email, otp) ==
    LET r == VerifyOTP(otpStore, email, otp, now) IN
    /\ otpStore' = r.store
    /\ otpHist' = [otpHist EXCEPT ![email] = HistVerify(@, r.outcome, MapHas(r.store, email))]
    /\ last' = Call("verify", email, otp, IF r.outcome = "Verified" THEN 200 ELSE 400,
                    r.outcome,
                    IF MapHas(otpStore, email) THEN now - otpHist[email].issuedAt ELSE -1)
    /\ UNCHANGED <<now, ticks, rlVars, authVars, link>>

\* The setInterval callback of startCleanup
Sweep ==
    /\ otpStore' = Cleanup(otpStore, now)
    /\ otpHist' = [e \in AllEmails |-> HistSweep(otpHist[e], MapHas(otpStore', e))]
    /\ last' = Call("sweep", "", "", 0, "", -1)
    /\ UNCHANGED <<now, ticks, rlVars, authVars, link>>

\* Time passes
OtpTick(d) ==
    /\ ticks < MaxTicks
    /\ now' = now + d
    /\ ticks' = ticks + 1
    /\ last' = Call("tick", "", "", 0, "", -1)
    /\ UNCHANGED <<otpVars, rlVars, authVars, link>>

NextOTP ==
    \/ \E e \in OtpEmails, c \in Codes : IssueCode(e, c)
    \/ \E e \in OtpEmails, c \in Candidates : VerifyCode(e, c)
    \/ Sweep
    \/ \E d \in OtpDeltas : OtpTick(d)

SpecOTP == Init /\ [][NextOTP]_vars

(***************************************************************************)
(* verifyOTP watched more closely: what the call found in the store        *)
(***************************************************************************)
\* verifyOTP(email, otp), the call recorded with the attempt counter it found
VerifyCounted(email, otp) ==
    LET r == VerifyOTP(otpStore, email, otp, now) IN
    /\ otpStore' = r.store
    /\ otpHist' = [otpHist EXCEPT ![email] = HistVerify(@, r.outcome, MapHas(r.store, email))]
    /\ last' = CallV("verify", email, otp, IF r.outcome = "Verified" THEN 200 ELSE 400,
                     r.outcome,
                     IF MapHas(otpStore, email) THEN now - otpHist[email].issuedAt ELSE -1,
                     IF MapHas(otpStore, email) THEN otpStore[email].attempts ELSE -1)
    /\ UNCHANGED <<now, ticks, rlVars, authVars, link>>

NextVerify ==
    \/ \E e \in OtpEmails : IssueCode(e, "100000")
    \/ \E e \in OtpEmails, c \in {"100000", "000000"} : VerifyCounted(e, c)
    \/ \E d \in OtpDeltas : OtpTick(d)

SpecVerify == Init /\ [][NextVerify]_vars

(***************************************************************************)
(* The cleanup interval: setInterval(..., 5 * 60 * 1000) of startCleanup,   *)
(* started by the constructor at time 0                                    *)
(***************************************************************************)
FiveMinutes == 5 * 60 * 1000

\* When the interval fires next after time t
NextDue(t) == ((t \div FiveMinutes) + 1) * FiveMinutes

\* The interval elapses and its callback runs: now = Date.now() at the due
\* time, then every entry with now > expiresAt is deleted. The timer is
\* followed for as long as codes can still be issued or are still stored.
SweepInterval ==
    /\ ticks < MaxTicks \/ otpStore # EmptyMap
    /\ now' = NextDue(now)
    /\ ticks' = ticks + 1
    /\ otpStore' = Cleanup(otpStore, now')
    /\ otpHist' = [e \in AllEmails |-> HistSweep(otpHist[e], MapHas(otpStore', e))]
    /\ last' = Call("sweep", "", "", 0,
                    IF DOMAIN otpStore' # DOMAIN otpStore THEN "cleaned" ELSE "", -1)
    /\ UNCHANGED <<rlVars, authVars, link>>

\* Time passes between two firings of the interval, half an interval at once
BetweenSweeps ==
    /\ now + (FiveMinutes \div 2) < NextDue(now)
    /\ now' = now + (FiveMinutes \div 2)
    /\ last' = Call("tick", "", "", 0, "", -1)
    /\ UNCHANGED <<ticks, otpVars, rlVars, authVars, link>>

\* Codes are issued during the first MaxTicks intervals only
IssueEarly(email, otp) ==
    /\ ticks < MaxTicks
    /\ IssueCode(email, otp)

NextSweep ==
    \/ \E e \in OtpEmails : IssueEarly(e, "100000")
    \/ \E e \in OtpEmails : VerifyCode(e, "100000")
    \/ SweepInterval
    \/ BetweenSweeps

\* The interval keeps firing for as long as the process runs
SpecSweep == Init /\ [][NextSweep]_vars /\ WF_vars(SweepInterval)

(***************************************************************************)
(* Actions on the rate limiter                                             *)
(***************************************************************************)
\* POST /auth/send-otp reaches rateLimitOTP: requests of one process run one
\* after the other (the middleware is synchronous), in any order.
SendOtpRequest(clientIP, email) ==
    LET r == RateLimitOTP(otpRateLimit, clientIP, now) IN
    /\ otpRateLimit' = r.limits
    /\ rlHist' = [rlHist EXCEPT ![clientIP] = WindowAnswer(WindowSee(@, now), r.allowed)]
    /\ last' = Call("rateLimit", email, clientIP, IF r.allowed THEN 200 ELSE 429,
                    IF r.allowed THEN "next" ELSE "limited", -1)
    /\ UNCHANGED <<now, ticks, otpVars, authVars, link>>

RlTick(d) ==
    /\ ticks < MaxTicks
    /\ now' = now + d
    /\ ticks' = ticks + 1
    /\ last' = Call("tick", "", "", 0, "", -1)
    /\ UNCHANGED <<otpVars, rlVars, authVars, link>>

NextRL ==
    \/ \E k \in Clients, e \in OtpEmails : SendOtpRequest(k, e)
    \/ \E d \in RlDeltas : RlTick(d)

SpecRL == Init /\ [][NextRL]_vars

(***************************************************************************)
(* The request handlers, each run to completion (AuthController)           *)
(***************************************************************************)
\* Tokens are kept only up to MaxTokens: a handler that would hand out one
\* more is not run.
TokenRoom(token) == token \in tokens \/ Cardinality(tokens) < MaxTokens

\* What a client can put in a request: a token it was handed, or the same
\* claims signed with a key of its own.
Presentable == tokens \cup {[tk EXCEPT !.key = "other"] : tk \in tokens}

\* A variant of sendOTP with a slip: a failure of the mail is not reported.
SendOTP_IgnoresMailFailure(email, otp, mailOk) ==
    LET existing == FindByEmail(users, email) IN
    /\ IF email = ""
       THEN /\ last' = Call("sendOTP", email, otp, 400, "Valid email address is required", -1)
            /\ UNCHANGED otpVars
       ELSE IF existing # 0 /\ users[existing].isVerified
       THEN /\ last' = Call("sendOTP", email, otp, 400,
                            "User with this email already exists and is verified", -1)
            /\ UNCHANGED otpVars
       ELSE /\ otpStore' = StoreOTP(otpStore, email, otp, now)
            /\ UNCHANGED otpHist
            /\ last' = IF mailOk
                       THEN CallM("sendOTP", email, otp, 200, "OTP sent successfully", mailOk)
                       ELSE CallM("sendOTP", email, otp, 200, "OTP sent successfully", mailOk)
    /\ UNCHANGED <<now, ticks, rlVars, authVars, link>>

\* sendOTP(email) with the code generateOTP() gave, at time t: the challenge
\* store afterwards and the call with its answer. mailOk tells whether
\* emailService.sendOTP succeeds; the code is stored before the mail is sent.
SendOTPOutcome(store, us, email, otp, mailOk, t) ==
    LET existing == FindByEmail(us, email) IN
    IF email = ""
    THEN [store |-> store,
          call |-> Call("sendOTP", email, otp, 400, "Valid email address is required", -1)]
    ELSE IF existing # 0 /\ us[existing].isVerified
    THEN [store |-> store,
          call |-> Call("sendOTP", email, otp, 400,
                        "User with this email already exists and is verified", -1)]
    ELSE [store |-> StoreOTP(store, email, otp, t),
          call |-> IF mailOk
                   THEN CallM("sendOTP", email, otp, 200, "OTP sent successfully", mailOk)
                   ELSE CallM("sendOTP", email, otp, 500, "Failed to send OTP", mailOk)]

\* POST /auth/send-otp, past the rate limiter: sendOTP
SendOTP(email, otp, mailOk) ==
    LET o == SendOTPOutcome(otpStore, users, email, otp, mailOk, now) IN
    /\ otpStore' = o.store
    /\ last' = o.call
    /\ UNCHANGED <<now, ticks, otpHist, rlVars, authVars, link>>

\* What rateLimitOTP answers itself
TooManyRequests == "Too many OTP requests. Please wait before requesting another OTP."

\* A variant of the send-otp route with a slip: rateLimitOTP counts the request
\* but the handler runs whatever the limiter found.
PostSendOtp_LimiterIgnored(clientIP, email, otp, mailOk) ==
    LET r == RateLimitOTP(otpRateLimit, clientIP, now)
        o == SendOTPOutcome(otpStore, users, email, otp, mailOk, now)
    IN
    /\ otpRateLimit' = r.limits
    /\ rlHist' = [rlHist EXCEPT ![clientIP] = WindowAnswer(WindowSee(@, now), r.allowed)]
    /\ otpStore' = o.store
    /\ last' = o.call @@ [client |-> clientIP]
    /\ UNCHANGED <<now, ticks, otpHist, authVars, link>>

\* POST /auth/send-otp as routed: rateLimitOTP, then sendOTP when it called
\* next(). The call is kept with the client address it came from.
PostSendOtp(clientIP, email, otp, mailOk) ==
    LET r == RateLimitOTP(otpRateLimit, clientIP, now)
        o == SendOTPOutcome(otpStore, users, email, otp, mailOk, now)
    IN
    /\ otpRateLimit' = r.limits
    /\ rlHist' = [rlHist EXCEPT ![clientIP] = WindowAnswer(WindowSee(@, now), r.allowed)]
    /\ otpStore' = IF r.allowed THEN o.store ELSE otpStore
    /\ last' = (IF r.allowed THEN o.call
                ELSE Call("sendOTP", email, otp, 429, TooManyRequests, -1))
               @@ [client |-> clientIP]
    /\ UNCHANGED <<now, ticks, otpHist, authVars, link>>

\* A variant of verifyOTPAndRegister with a slip: a wrong code is let through.
VerifyOTPAndRegister_MismatchPasses(email, otp, password, welcomeOk) ==
    LET v == VerifyOTP(otpStore, email, otp, now)
        existing == FindByEmail(users, email)
        id == IF existing # 0 THEN existing ELSE Cardinality(DOMAIN users) + 1
        token == GenerateToken(id, now)
    IN
    IF email = "" \/ otp = "" \/ password = ""
    THEN /\ last' = Call("register", email, otp, 400, "Email, OTP, and password are required", -1)
         /\ UNCHANGED <<now, ticks, otpVars, rlVars, authVars, link>>
    ELSE IF Len(password) < 6
    THEN /\ last' = Call("register", email, otp, 400,
                         "Password must be at least 6 characters long", -1)
         /\ UNCHANGED <<now, ticks, otpVars, rlVars, authVars, link>>
    ELSE
    /\ otpStore' = v.store
    /\ UNCHANGED otpHist
    /\ IF v.outcome \notin {"Verified", "Mismatch"}
       THEN /\ last' = Call("register", email, otp, 400, v.outcome, -1)
            /\ UNCHANGED authVars
       ELSE /\ TokenRoom(token)
            /\ users' = IF existing # 0
                        THEN [users EXCEPT ![existing].password = Hash(password),
                                           ![existing].isVerified = TRUE]
                        ELSE MapSet(users, id, NewUser(email, password, "", now))
            /\ tokens' = tokens \cup {token}
            /\ last' = CallW("register", email, otp, 200,
                             "Registration completed successfully", token, welcomeOk)
            /\ pwSet' = MapSet(pwSet, id, password)
            /\ UNCHANGED signedOut
            /\ UNCHANGED spent
    /\ UNCHANGED <<now, ticks, rlVars, link>>

\* A variant of verifyOTPAndRegister with a slip: a failing welcome mail is not
\* caught apart and ends in the handler's catch block.
VerifyOTPAndRegister_WelcomeFatal(email, otp, password, welcomeOk) ==
    LET v == VerifyOTP(otpStore, email, otp, now)
        existing == FindByEmail(users, email)
        id == IF existing # 0 THEN existing ELSE Cardinality(DOMAIN users) + 1
        token == GenerateToken(id, now)
    IN
    IF email = "" \/ otp = "" \/ password = ""
    THEN /\ last' = Call("register", email, otp, 400, "Email, OTP, and password are required", -1)
         /\ UNCHANGED <<now, ticks, otpVars, rlVars, authVars, link>>
    ELSE IF Len(password) < 6
    THEN /\ last' = Call("register", email, otp, 400,
                         "Password must be at least 6 characters long", -1)
         /\ UNCHANGED <<now, ticks, otpVars, rlVars, authVars, link>>
    ELSE
    /\ otpStore' = v.store
    /\ UNCHANGED otpHist
    /\ IF v.outcome # "Verified"
       THEN /\ last' = Call("register", email, otp, 400, v.outcome, -1)
            /\ UNCHANGED authVars
       ELSE /\ TokenRoom(token)
            /\ users' = IF existing # 0
                        THEN [users EXCEPT ![existing].password = Hash(password),
                                           ![existing].isVerified = TRUE]
                        ELSE MapSet(users, id, NewUser(email, password, "", now))
            /\ tokens' = tokens \cup {token}
            /\ last' = IF welcomeOk
                       THEN CallW("register", email, otp, 200,
                                  "Registration completed successfully", token, welcomeOk)
                       ELSE Call("register", email, otp, 500, "Registration failed", -1)
            /\ pwSet' = MapSet(pwSet, id, password)
            /\ UNCHANGED signedOut
            /\ UNCHANGED spent
    /\ UNCHANGED <<now, ticks, rlVars, link>>

\* A variant of verifyOTPAndRegister with a slip: the code is verified before
\* the length of the password is looked at.
VerifyOTPAndRegister_VerifyFirst(email, otp, password, welcomeOk) ==
    LET v == VerifyOTP(otpStore, email, otp, now)
        existing == FindByEmail(users, email)
        id == IF existing # 0 THEN existing ELSE Cardinality(DOMAIN users) + 1
        token == GenerateToken(id, now)
    IN
    IF email = "" \/ otp = "" \/ password = ""
    THEN /\ last' = CallR("register", email, otp, 400,
                          "Email, OTP, and password are required", password)
         /\ UNCHANGED <<now, ticks, otpVars, rlVars, authVars, link>>
    ELSE IF Len(password) < 6
    THEN /\ last' = CallR("register", email, otp, 400,
                          "Password must be at least 6 characters long", password)
         /\ otpStore' = v.store
         /\ UNCHANGED <<now, ticks, otpHist, rlVars, authVars, link>>
    ELSE
    /\ otpStore' = v.store
    /\ UNCHANGED otpHist
    /\ IF v.outcome # "Verified"
       THEN /\ last' = CallR("register", email, otp, 400, v.outcome, password)
            /\ UNCHANGED authVars
       ELSE /\ TokenRoom(token)
            /\ users' = IF existing # 0
                        THEN [users EXCEPT ![existing].password = Hash(password),
                                           ![existing].isVerified = TRUE]
                        ELSE MapSet(users, id, NewUser(email, password, "", now))
            /\ tokens' = tokens \cup {token}
            /\ last' = CallW("register", email, otp, 200,
                             "Registration completed successfully", token, welcomeOk)
                       @@ [password |-> password]
            /\ pwSet' = MapSet(pwSet, id, password)
            /\ UNCHANGED signedOut
            /\ UNCHANGED spent
    /\ UNCHANGED <<now, ticks, rlVars, link>>

\* POST /auth/verify-otp-register: verifyOTPAndRegister. welcomeOk tells
\* whether emailService.sendWelcomeEmail succeeds; its failure is caught and
\* logged.
VerifyOTPAndRegister(email, otp, password, welcomeOk) ==
    LET v == VerifyOTP(otpStore, email, otp, now)
        existing == FindByEmail(users, email)
        id == IF existing # 0 THEN existing ELSE Cardinality(DOMAIN users) + 1
        token == GenerateToken(id, now)
    IN
    IF email = "" \/ otp = "" \/ password = ""
    THEN /\ last' = CallR("register", email, otp, 400,
                          "Email, OTP, and password are required", password)
         /\ UNCHANGED <<now, ticks, otpVars, rlVars, authVars, link>>
    ELSE IF Len(password) < 6
    THEN /\ last' = CallR("register", email, otp, 400,
                          "Password must be at least 6 characters long", password)
         /\ UNCHANGED <<now, ticks, otpVars, rlVars, authVars, link>>
    ELSE
    /\ otpStore' = v.store
    /\ UNCHANGED otpHist
    /\ IF v.outcome # "Verified"
       THEN /\ last' = CallR("register", email, otp, 400, v.outcome, password)
            /\ UNCHANGED authVars
       ELSE /\ TokenRoom(token)
            /\ users' = IF existing # 0
                        THEN [users EXCEPT ![existing].password = Hash(password),
                                           ![existing].isVerified = TRUE]
                        ELSE MapSet(users, id, NewUser(email, password, "", now))
            /\ tokens' = tokens \cup {token}
            /\ last' = CallW("register", email, otp, 200,
                             "Registration completed successfully", token, welcomeOk)
                       @@ [password |-> password]
            /\ pwSet' = MapSet(pwSet, id, password)
            /\ UNCHANGED signedOut
            /\ UNCHANGED spent
    /\ UNCHANGED <<now, ticks, rlVars, link>>

\* A variant of signin with a slip: the password is not compared.
Signin_AnyPassword(email, password) ==
    LET id == FindByEmail(users, email)
        token == GenerateToken(id, now)
    IN
    /\ IF email = "" \/ password = ""
       THEN /\ last' = Call("signin", email, password, 400, "Email and password are required", -1)
            /\ UNCHANGED authVars
       ELSE IF id = 0
       THEN /\ last' = Call("signin", email, password, 401, "Invalid email or password", -1)
            /\ UNCHANGED authVars
       ELSE IF users[id].password = ""
       THEN /\ last' = Call("signin", email, password, 401,
                            "This account uses Google OAuth. Please sign in with Google.", -1)
            /\ UNCHANGED authVars
       ELSE IF FALSE
       THEN /\ last' = Call("signin", email, password, 401, "Invalid email or password", -1)
            /\ UNCHANGED authVars
       ELSE IF ~users[id].isVerified
       THEN /\ last' = Call("signin", email, password, 403,
                            "Email not verified. Please verify your email address.", -1)
            /\ UNCHANGED authVars
       ELSE /\ TokenRoom(token)
            /\ users' = [users EXCEPT ![id].lastLogin = now]
            /\ tokens' = tokens \cup {token}
            /\ last' = CallT("signin", email, password, 200, "Sign in successful", token)
            /\ UNCHANGED <<spent, pwSet, signedOut>>
    /\ UNCHANGED <<now, ticks, otpVars, rlVars, link>>

\* POST /auth/signin: signin
Signin(email, password) ==
    LET id == FindByEmail(users, email)
        token == GenerateToken(id, now)
    IN
    /\ IF email = "" \/ password = ""
       THEN /\ last' = Call("signin", email, password, 400, "Email and password are required", -1)
            /\ UNCHANGED authVars
       ELSE IF id = 0
       THEN /\ last' = Call("signin", email, password, 401, "Invalid email or password", -1)
            /\ UNCHANGED authVars
       ELSE IF users[id].password = ""
       THEN /\ last' = Call("signin", email, password, 401,
                            "This account uses Google OAuth. Please sign in with Google.", -1)
            /\ UNCHANGED authVars
       ELSE IF ComparePasswordThrows(users[id], password)
       THEN /\ last' = Call("signin", email, password, 500, "Sign in failed", -1)
            /\ UNCHANGED authVars
       ELSE IF ~ComparePassword(users[id], password)
       THEN /\ last' = Call("signin", email, password, 401, "Invalid email or password", -1)
            /\ UNCHANGED authVars
       ELSE IF ~users[id].isVerified
       THEN /\ last' = Call("signin", email, password, 403,
                            "Email not verified. Please verify your email address.", -1)
            /\ UNCHANGED authVars
       ELSE /\ TokenRoom(token)
            /\ users' = [users EXCEPT ![id].lastLogin = now]
            /\ tokens' = tokens \cup {token}
            /\ last' = CallT("signin", email, password, 200, "Sign in successful", token)
            /\ UNCHANGED <<spent, pwSet, signedOut>>
    /\ UNCHANGED <<now, ticks, otpVars, rlVars, link>>

\* GET /auth/google/callback: the strategy's verify callback, then
\* handleOAuthSuccess
GoogleLogin(profile) ==
    LET r == FindOrCreateGoogleUser(users, profile, now)
        token == GenerateToken(r.id, now)
    IN
    /\ users' = r.users
    /\ IF r.id = 0
       THEN /\ last' = Call("google", profile.email, profile.id, 401,
                            "Google OAuth authentication failed", -1)
            /\ UNCHANGED <<tokens, spent, pwSet, signedOut>>
       ELSE /\ TokenRoom(token)
            /\ tokens' = tokens \cup {token}
            /\ last' = CallT("google", profile.email, profile.id, 200,
                             "Google OAuth authentication successful", token)
            /\ UNCHANGED <<spent, pwSet, signedOut>>
    /\ UNCHANGED <<now, ticks, otpVars, rlVars, link>>

\* A variant of requestPasswordReset with a slip: a reset token already stored
\* is kept, and the new one is mailed without being stored.
RequestPasswordReset_FirstWins(email, mailOk) ==
    LET id == FindByEmail(users, email)
        resetToken == GenerateShortToken(id, "password-reset", now)
    IN
    /\ IF email = ""
       THEN /\ last' = Call("requestPasswordReset", email, "", 400, "Email is required", -1)
            /\ UNCHANGED authVars
       ELSE IF id = 0
       THEN /\ last' = Call("requestPasswordReset", email, "absent", 200, ResetRequested, -1)
            /\ UNCHANGED authVars
       ELSE IF users[id].password = ""
       THEN /\ last' = Call("requestPasswordReset", email, "external", 200, ResetRequested, -1)
            /\ UNCHANGED authVars
       ELSE /\ TokenRoom(resetToken)
            /\ users' = IF users[id].resetPasswordToken # NoToken THEN users
                        ELSE [users EXCEPT ![id].resetPasswordToken = resetToken,
                                           ![id].resetPasswordExpires = now + (60 * 60 * 1000)]
            /\ tokens' = IF mailOk THEN tokens \cup {resetToken} ELSE tokens
            /\ UNCHANGED <<pwSet, signedOut>>
            /\ spent' = IF MapHas(spent, resetToken)
                        THEN [spent EXCEPT ![resetToken] = FALSE] ELSE spent
            /\ last' = IF mailOk
                       THEN CallT("requestPasswordReset", email, "password", 200,
                                  ResetRequested, resetToken)
                       ELSE CallT("requestPasswordReset", email, "password", 500,
                                  "Failed to request password reset", resetToken)
    /\ UNCHANGED <<now, ticks, otpVars, rlVars, link>>

\* POST /auth/request-password-reset: requestPasswordReset. mailOk tells whether
\* emailService.sendPasswordResetEmail succeeds; the token is saved before the
\* mail is sent, and reaches the client only with the mail.
RequestPasswordReset(email, mailOk) ==
    LET id == FindByEmail(users, email)
        resetToken == GenerateShortToken(id, "password-reset", now)
    IN
    /\ IF email = ""
       THEN /\ last' = Call("requestPasswordReset", email, "", 400, "Email is required", -1)
            /\ UNCHANGED authVars
       ELSE IF id = 0
       THEN /\ last' = Call("requestPasswordReset", email, "absent", 200, ResetRequested, -1)
            /\ UNCHANGED authVars
       ELSE IF users[id].password = ""
       THEN /\ last' = Call("requestPasswordReset", email, "external", 200, ResetRequested, -1)
            /\ UNCHANGED authVars
       ELSE /\ TokenRoom(resetToken)
            /\ users' = [users EXCEPT ![id].resetPasswordToken = resetToken,
                                      ![id].resetPasswordExpires = now + (60 * 60 * 1000)]
            /\ tokens' = IF mailOk THEN tokens \cup {resetToken} ELSE tokens
            /\ UNCHANGED <<pwSet, signedOut>>
            /\ spent' = IF MapHas(spent, resetToken)
                        THEN [spent EXCEPT ![resetToken] = FALSE] ELSE spent
            /\ last' = IF mailOk
                       THEN CallT("requestPasswordReset", email, "password", 200,
                                  ResetRequested, resetToken)
                       ELSE CallT("requestPasswordReset", email, "password", 500,
                                  "Failed to request password reset", resetToken)
    /\ UNCHANGED <<now, ticks, otpVars, rlVars, link>>

\* POST /auth/reset-password: resetPassword
ResetPassword(token, newPassword) ==
    LET r == ResetPasswordOutcome(users, token, newPassword, now) IN
    /\ users' = r.users
    /\ spent' = IF r.status = 200 THEN MapSet(spent, token, TRUE) ELSE spent
    /\ pwSet' = IF r.status = 200 THEN MapSet(pwSet, token.userId, newPassword) ELSE pwSet
    /\ UNCHANGED signedOut
    /\ last' = CallT("resetPassword", "", newPassword, r.status, r.error, token)
    /\ UNCHANGED <<now, ticks, otpVars, rlVars, tokens, link>>

\* GET /auth/profile: authenticateToken, then getProfile when it calls next()
GetProfile(header) ==
    LET a == AuthenticateToken(users, header, now) IN
    /\ last' = CallH("getProfile", header, header.scheme, a.status, a.error)
    /\ UNCHANGED <<now, ticks, otpVars, rlVars, authVars, link>>

\* PUT /auth/profile: authenticateToken, then updateProfile
UpdateProfile(header, name) ==
    LET a == AuthenticateToken(users, header, now)
        id == header.token.userId
    IN
    /\ IF a.status # 200
       THEN /\ last' = CallH("updateProfile", header, name, a.status, a.error)
            /\ UNCHANGED users
       ELSE /\ users' = IF name # "" THEN [users EXCEPT ![id].name = name] ELSE users
            /\ last' = CallH("updateProfile", header, name, 200, "Profile updated successfully")
    /\ UNCHANGED <<now, ticks, otpVars, rlVars, tokens, spent, pwSet, signedOut, link>>

\* A variant of changePassword with a slip: the current password is not
\* compared.
ChangePassword_SkipsCurrent(header, currentPassword, newPassword) ==
    LET a == AuthenticateToken(users, header, now)
        id == header.token.userId
        status == IF currentPassword = "" \/ newPassword = "" THEN 400
                  ELSE IF Len(newPassword) < 6 THEN 400
                  ELSE IF users[id].password = "" THEN 400
                  ELSE 200
        error == IF currentPassword = "" \/ newPassword = ""
                 THEN "Current password and new password are required"
                 ELSE IF Len(newPassword) < 6
                 THEN "New password must be at least 6 characters long"
                 ELSE IF users[id].password = ""
                 THEN "Password change not available for Google OAuth accounts"
                 ELSE "Password changed successfully"
    IN
    /\ IF a.status # 200
       THEN /\ last' = CallP("changePassword", header, currentPassword, newPassword,
                             a.status, a.error)
            /\ UNCHANGED <<users, pwSet, signedOut>>
       ELSE IF status # 200
       THEN /\ last' = CallP("changePassword", header, currentPassword, newPassword,
                             status, error)
            /\ UNCHANGED <<users, pwSet, signedOut>>
       ELSE /\ users' = [users EXCEPT ![id].password = Hash(newPassword)]
            /\ pwSet' = MapSet(pwSet, id, newPassword)
            /\ UNCHANGED signedOut
            /\ last' = CallP("changePassword", header, currentPassword, newPassword,
                             200, error)
    /\ UNCHANGED <<now, ticks, otpVars, rlVars, tokens, spent, link>>

\* POST /auth/change-password: authenticateToken, then changePassword
ChangePassword(header, currentPassword, newPassword) ==
    LET a == AuthenticateToken(users, header, now)
        id == header.token.userId
        status == IF currentPassword = "" \/ newPassword = "" THEN 400
                  ELSE IF Len(newPassword) < 6 THEN 400
                  ELSE IF users[id].password = "" THEN 400
                  ELSE IF ComparePasswordThrows(users[id], currentPassword) THEN 500
                  ELSE IF ~ComparePassword(users[id], currentPassword) THEN 400
                  ELSE 200
        error == IF currentPassword = "" \/ newPassword = ""
                 THEN "Current password and new password are required"
                 ELSE IF Len(newPassword) < 6
                 THEN "New password must be at least 6 characters long"
                 ELSE IF users[id].password = ""
                 THEN "Password change not available for Google OAuth accounts"
                 ELSE IF ComparePasswordThrows(users[id], currentPassword)
                 THEN "Failed to change password"
                 ELSE IF ~ComparePassword(users[id], currentPassword)
                 THEN "Current password is incorrect"
                 ELSE "Password changed successfully"
    IN
    /\ IF a.status # 200
       THEN /\ last' = CallP("changePassword", header, currentPassword, newPassword,
                             a.status, a.error)
            /\ UNCHANGED <<users, pwSet, signedOut>>
       ELSE IF status # 200
       THEN /\ last' = CallP("changePassword", header, currentPassword, newPassword,
                             status, error)
            /\ UNCHANGED <<users, pwSet, signedOut>>
       ELSE /\ users' = [users EXCEPT ![id].password = Hash(newPassword)]
            /\ pwSet' = MapSet(pwSet, id, newPassword)
            /\ UNCHANGED signedOut
            /\ last' = CallP("changePassword", header, currentPassword, newPassword,
                             200, error)
    /\ UNCHANGED <<now, ticks, otpVars, rlVars, tokens, spent, link>>

\* POST /auth/signout: authenticateToken, then signout, which only answers
\* (the token is left to the client to discard)
\* A variant of signout with a slip: it ends the session on the server by
\* withdrawing the account's verified flag.
Signout_Revokes(header) ==
    LET a == AuthenticateToken(users, header, now)
        id == header.token.userId IN
    /\ last' = IF a.status # 200
               THEN CallH("signout", header, header.scheme, a.status, a.error)
               ELSE CallH("signout", header, header.scheme, 200, "Sign out successful")
    /\ users' = IF a.status # 200 THEN users
                ELSE MapSet(users, id, [users[id] EXCEPT !.isVerified = FALSE])
    /\ signedOut' = IF a.status = 200 THEN signedOut \cup {header.token} ELSE signedOut
    /\ UNCHANGED <<now, ticks, otpVars, rlVars, tokens, spent, pwSet, link>>

\* signout: behind authenticateToken; the handler answers 'Sign out successful'
\* and touches neither the users collection nor any token
Signout(header) ==
    LET a == AuthenticateToken(users, header, now) IN
    /\ last' = IF a.status # 200
               THEN CallH("signout", header, header.scheme, a.status, a.error)
               ELSE CallH("signout", header, header.scheme, 200, "Sign out successful")
    /\ signedOut' = IF a.status = 200 THEN signedOut \cup {header.token} ELSE signedOut
    /\ UNCHANGED <<now, ticks, otpVars, rlVars, users, tokens, spent, pwSet, link>>

\* Any route under /api/chat-mongo: router.use(authenticateToken), then the
\* route's handler (the chats it works on are not part of this model)
ChatMongo(header) ==
    LET a == AuthenticateToken(users, header, now) IN
    /\ last' = IF a.status # 200
               THEN CallH("chatMongo", header, header.scheme, a.status, a.error)
               ELSE CallH("chatMongo", header, header.scheme, 200, "")
    /\ UNCHANGED <<now, ticks, otpVars, rlVars, authVars, link>>

AuthTick(d) ==
    /\ ticks < MaxTicks
    /\ now' = now + d
    /\ ticks' = ticks + 1
    /\ last' = Call("tick", "", "", 0, "", -1)
    /\ UNCHANGED <<otpVars, rlVars, authVars, link>>

NextAuth ==
    \/ SendOTP("a@x.com", "100000", TRUE)
    \/ VerifyOTPAndRegister("a@x.com", "100000", "secret-1", TRUE)
    \/ \E p \in Passwords : Signin("a@x.com", p)
    \/ \E g \in GoogleIds, e \in {"a@x.com", ""} : GoogleLogin(Profile(g, e))
    \/ \E e \in AuthEmails \cup {""}, m \in BOOLEAN : RequestPasswordReset(e, m)
    \/ \E tk \in Presentable, p \in Passwords : ResetPassword(tk, p)
    \/ \E tk \in Presentable : GetProfile([scheme |-> "Bearer", token |-> tk])
    \/ \E tk \in tokens : GetProfile([scheme |-> "Basic", token |-> tk])
    \/ GetProfile(NoHeader)
    \/ \E d \in AuthDeltas : AuthTick(d)

SpecAuth == Init /\ [][NextAuth]_vars

(***************************************************************************)
(* Signup: codes sent, codes submitted, time passing                       *)
(***************************************************************************)
NextSignup ==
    \/ \E e \in OtpEmails, m \in BOOLEAN : SendOTP(e, "100000", m)
    \/ \E e \in OtpEmails, c \in {"100000", "000000"}, p \in SignupPasswords, w \in BOOLEAN :
          VerifyOTPAndRegister(e, c, p, w)
    \/ GoogleLogin(Profile("g-1", "a@x.com"))
    \/ Sweep
    \/ \E d \in OtpDeltas : OtpTick(d)

SpecSignup == Init /\ [][NextSignup]_vars

(***************************************************************************)
(* The send-otp route with its rate limiter, signup completions and time   *)
(***************************************************************************)
NextRequest ==
    \/ \E e \in OtpEmails \cup {""}, c \in Codes, m \in BOOLEAN :
          PostSendOtp("10.0.0.1", e, c, m)
    \/ \E c \in Codes : VerifyOTPAndRegister("a@x.com", c, "secret-1", TRUE)
    \/ \E d \in RlDeltas : RlTick(d)

SpecRequest == Init /\ [][NextRequest]_vars

(***************************************************************************)
(* Signup completions with incomplete input                                *)
(***************************************************************************)
\* What a completion can carry: fields left out (""), a password too short
CompletionEmails == {"a@x.com", ""}

CompletionCodes == {"100000", "000000", ""}

CompletionPasswords == {"secret-1", "abc", ""}

NextValidate ==
    \/ SendOTP("a@x.com", "100000", TRUE)
    \/ \E e \in CompletionEmails, c \in CompletionCodes, p \in CompletionPasswords :
          VerifyOTPAndRegister(e, c, p, TRUE)
    \/ \E d \in OtpDeltas : OtpTick(d)

SpecValidate == Init /\ [][NextValidate]_vars

(***************************************************************************)
(* Protected routes: every header a client can send, tokens ageing         *)
(***************************************************************************)
\* The Authorization headers tried: none, each presentable token under the
\* Bearer scheme, and each token handed out under another scheme.
Headers ==
    {NoHeader} \cup {[scheme |-> "Bearer", token |-> tk] : tk \in Presentable}
               \cup {[scheme |-> "Basic", token |-> tk] : tk \in tokens}

NextProtected ==
    \/ SendOTP("a@x.com", "100000", TRUE)
    \/ VerifyOTPAndRegister("a@x.com", "100000", "secret-1", TRUE)
    \/ RequestPasswordReset("a@x.com", TRUE)
    \/ \E h \in Headers : GetProfile(h)
    \/ \E h \in Headers : UpdateProfile(h, "Ann")
    \/ \E h \in Headers : ChangePassword(h, "secret-1", "secret-2")
    \/ \E h \in Headers : Signout(h)
    \/ \E h \in Headers : ChatMongo(h)
    \/ \E d \in ProtectedDeltas : AuthTick(d)

SpecProtected == Init /\ [][NextProtected]_vars

(***************************************************************************)
(* Tokens ageing: a session token and a reset token, presented over time   *)
(***************************************************************************)
NextExpiry ==
    \/ SendOTP("a@x.com", "100000", TRUE)
    \/ VerifyOTPAndRegister("a@x.com", "100000", "secret-1", TRUE)
    \/ Signin("a@x.com", "secret-1")
    \/ RequestPasswordReset("a@x.com", TRUE)
    \/ \E tk \in tokens : ResetPassword(tk, "secret-1")
    \/ \E tk \in tokens : GetProfile([scheme |-> "Bearer", token |-> tk])
    \/ \E d \in TokenDeltas : AuthTick(d)

SpecExpiry == Init /\ [][NextExpiry]_vars

(***************************************************************************)
(* The life of a password: one account, every way of setting its password  *)
(***************************************************************************)
NextPwd ==
    \/ SendOTP("a@x.com", "100000", TRUE)
    \/ \E p \in PwdInputs : VerifyOTPAndRegister("a@x.com", "100000", p, TRUE)
    \/ \E p \in PwdInputs : Signin("a@x.com", p)
    \/ \E tk \in tokens, cur \in PwdInputs, new \in PwdInputs :
          ChangePassword([scheme |-> "Bearer", token |-> tk], cur, new)
    \/ \E tk \in tokens, n \in Names : UpdateProfile([scheme |-> "Bearer", token |-> tk], n)
    \/ GoogleLogin(Profile("g-1", "a@x.com"))
    \/ RequestPasswordReset("a@x.com", TRUE)
    \/ \E tk \in tokens, p \in PwdInputs : ResetPassword(tk, p)
    \/ Signin("a@x.com", NumberPassword)
    \/ \E tk \in tokens :
          ChangePassword([scheme |-> "Bearer", token |-> tk], NumberPassword, "secret-1")

SpecPwd == Init /\ [][NextPwd]_vars

(***************************************************************************)
(* Google sign-in calls that overlap (passport.js verify callback)         *)
(***************************************************************************)
\* The strategy's verify callback is entered with a profile.
LinkStart(p, profile) ==
    /\ link[p].pc = "idle"
    /\ link' = [link EXCEPT ![p] =
                   [Idle EXCEPT !.pc = "findByGoogleId", !.profile = profile, !.kind = "google",
                                !.after = {q \in Slots : /\ link[q].pc = "done"
                                                         /\ link[q].profile = profile}]]
    /\ UNCHANGED <<now, ticks, otpVars, rlVars, authVars, last>>

\* let user = await this.findByGoogleId(id)
LinkFindByGoogleId(p) ==
    LET found == FindByGoogleId(users, link[p].profile.id) IN
    /\ link[p].pc = "findByGoogleId"
    /\ link' = [link EXCEPT ![p].doc = found,
                            ![p].pc = IF found # 0 THEN "saveLogin"
                                      ELSE IF link[p].profile.email # "" THEN "findByEmail"
                                      ELSE "create"]
    /\ UNCHANGED <<now, ticks, otpVars, rlVars, authVars, last>>

\* user.lastLogin = new Date(); await user.save(); return user
LinkSaveLogin(p) ==
    /\ link[p].pc = "saveLogin"
    /\ users' = [users EXCEPT ![link[p].doc].lastLogin = now]
    /\ link' = [link EXCEPT ![p] = OAuthAnswer(link[p], link[p].doc, now)]
    /\ UNCHANGED <<now, ticks, otpVars, rlVars, tokens, spent, pwSet, signedOut, last>>

\* user = await this.findByEmail(emails[0].value)
LinkFindByEmail(p) ==
    LET found == FindByEmail(users, link[p].profile.email) IN
    /\ link[p].pc = "findByEmail"
    /\ link' = [link EXCEPT ![p].doc = found,
                            ![p].pc = IF found # 0 THEN "saveLinked" ELSE "create"]
    /\ UNCHANGED <<now, ticks, otpVars, rlVars, authVars, last>>

\* user.googleId = id; user.isVerified = true; user.lastLogin = new Date();
\* await user.save(); return user
LinkSaveLinked(p) ==
    LET r == SaveLinked(users, link[p].doc, link[p].profile.id, now) IN
    /\ link[p].pc = "saveLinked"
    /\ users' = r.users
    /\ link' = [link EXCEPT ![p] = OAuthAnswer(link[p], r.id, now)]
    /\ UNCHANGED <<now, ticks, otpVars, rlVars, tokens, spent, pwSet, signedOut, last>>

\* user = new this({...}); await user.save(); return user
LinkCreate(p) ==
    LET r == InsertUser(users, NewUser(link[p].profile.email, "", link[p].profile.id, now)) IN
    /\ link[p].pc = "create"
    /\ users' = r.users
    /\ link' = [link EXCEPT ![p] = [OAuthAnswer(link[p], r.id, now) EXCEPT !.created = (r.id # 0)]]
    /\ UNCHANGED <<now, ticks, otpVars, rlVars, tokens, spent, pwSet, signedOut, last>>

\* POST /auth/verify-otp-register up to its first await: the input checks and
\* otpService.verifyOTP, which are synchronous.
RegStart(p, email, otp, password) ==
    LET v == VerifyOTP(otpStore, email, otp, now)
        call == [Idle EXCEPT !.kind = "signup", !.profile = [id |-> "", email |-> email],
                             !.password = password]
    IN
    /\ link[p].pc = "idle"
    /\ email # "" /\ otp # "" /\ Len(password) >= 6
    /\ otpStore' = v.store
    /\ link' = [link EXCEPT ![p] =
                   IF v.outcome = "Verified"
                   THEN [call EXCEPT !.pc = "regFindByEmail"]
                   ELSE [call EXCEPT !.pc = "done", !.status = 400]]
    /\ UNCHANGED <<now, ticks, otpHist, rlVars, authVars, last>>

\* let user = await User.findByEmail(email)
RegFindByEmail(p) ==
    LET found == FindByEmail(users, link[p].profile.email) IN
    /\ link[p].pc = "regFindByEmail"
    /\ link' = [link EXCEPT ![p].doc = found,
                            ![p].pc = IF found # 0 THEN "regUpdate" ELSE "regCreate"]
    /\ UNCHANGED <<now, ticks, otpVars, rlVars, authVars, last>>

\* user.password = password; user.isVerified = true; await user.save(); then
\* the token and the answer
RegUpdate(p) ==
    /\ link[p].pc = "regUpdate"
    /\ users' = [users EXCEPT ![link[p].doc].password = Hash(link[p].password),
                              ![link[p].doc].isVerified = TRUE]
    /\ link' = [link EXCEPT ![p] = RegisterAnswer(link[p], link[p].doc, now)]
    /\ pwSet' = MapSet(pwSet, link[p].doc, link[p].password)
    /\ UNCHANGED signedOut
    /\ UNCHANGED <<now, ticks, otpVars, rlVars, tokens, spent, last>>

\* user = new User({email, password, isVerified: true}); await user.save();
\* then the token and the answer, or the catch block
RegCreate(p) ==
    LET r == InsertUser(users, NewUser(link[p].profile.email, link[p].password, "", now)) IN
    /\ link[p].pc = "regCreate"
    /\ users' = r.users
    /\ link' = [link EXCEPT ![p] =
                   [RegisterAnswer(link[p], r.id, now) EXCEPT !.created = (r.id # 0)]]
    /\ pwSet' = IF r.id # 0 THEN MapSet(pwSet, r.id, link[p].password) ELSE pwSet
    /\ UNCHANGED signedOut
    /\ UNCHANGED <<now, ticks, otpVars, rlVars, tokens, spent, last>>

\* POST /auth/reset-password up to its first await: the input checks and
\* jwtService.verifyToken, which are synchronous. The slot keeps the token
\* presented and the password submitted.
ResetStart(p, token, newPassword) ==
    LET call == [Idle EXCEPT !.kind = "reset", !.token = token, !.password = newPassword]
        ok == /\ token # NoToken /\ newPassword # "" /\ Len(newPassword) >= 6
              /\ VerifyToken(token, now) /\ token.type = "password-reset"
    IN
    /\ link[p].pc = "idle"
    /\ link' = [link EXCEPT ![p] =
                   IF ok THEN [call EXCEPT !.pc = "resetFindById"]
                   ELSE [call EXCEPT !.pc = "done", !.status = 400]]
    /\ UNCHANGED <<now, ticks, otpVars, rlVars, authVars, last>>

\* const user = await User.findById(...), then the tests of the stored token
\* and expiry on the document just read
ResetFindById(p) ==
    LET id == FindById(users, link[p].token.userId)
        ok == /\ id # 0
              /\ users[id].resetPasswordToken = link[p].token
              /\ ~DateBefore(users[id].resetPasswordExpires, now)
    IN
    /\ link[p].pc = "resetFindById"
    /\ link' = [link EXCEPT ![p].doc = id,
                            ![p].pc = IF ok THEN "resetSave" ELSE "done",
                            ![p].status = IF ok THEN 0 ELSE 400]
    /\ UNCHANGED <<now, ticks, otpVars, rlVars, authVars, last>>

\* user.password = newPassword; the reset fields set to null; await
\* user.save(), which writes the three paths whatever the collection holds by
\* then; the answer is 200
ResetSave(p) ==
    LET id == link[p].doc IN
    /\ link[p].pc = "resetSave"
    /\ users' = [users EXCEPT ![id].password = Hash(link[p].password),
                              ![id].resetPasswordToken = NoToken,
                              ![id].resetPasswordExpires = NullDate]
    /\ spent' = MapSet(spent, link[p].token, TRUE)
    /\ pwSet' = MapSet(pwSet, id, link[p].password)
    /\ link' = [link EXCEPT ![p].pc = "done", ![p].status = 200]
    /\ UNCHANGED <<now, ticks, otpVars, rlVars, tokens, signedOut, last>>

NextLink ==
    \/ \E p \in Slots, profile \in LinkProfiles : LinkStart(p, profile)
    \/ \E p \in Slots : LinkFindByGoogleId(p)
    \/ \E p \in Slots : LinkSaveLogin(p)
    \/ \E p \in Slots : LinkFindByEmail(p)
    \/ \E p \in Slots : LinkSaveLinked(p)
    \/ \E p \in Slots : LinkCreate(p)
    \/ \E p \in Slots, e \in OtpEmails : RegStart(p, e, "100000", "secret-1")
    \/ \E p \in Slots : RegFindByEmail(p)
    \/ \E p \in Slots : RegUpdate(p)
    \/ \E p \in Slots : RegCreate(p)
    \/ \E e \in OtpEmails : SendOTP(e, "100000", TRUE)
    \/ VerifyOTPAndRegister("a@x.com", "100000", "secret-1", TRUE)

SpecLink == Init /\ [][NextLink]_vars

(***************************************************************************)
(* Reset completions that overlap                                          *)
(***************************************************************************)
NextReset ==
    \/ SendOTP("a@x.com", "100000", TRUE)
    \/ VerifyOTPAndRegister("a@x.com", "100000", "secret-1", TRUE)
    \/ RequestPasswordReset("a@x.com", TRUE)
    \/ \E p \in Slots, tk \in tokens, pw \in Passwords : ResetStart(p, tk, pw)
    \/ \E p \in Slots : ResetFindById(p)
    \/ \E p \in Slots : ResetSave(p)
    \/ \E pw \in Passwords : Signin("a@x.com", pw)

SpecReset == Init /\ [][NextReset]_vars

(***************************************************************************)
(* Several reset requests for one account                                  *)
(***************************************************************************)
\* The account is created by a signup completion taken step by step; its
\* answer, and the session token in it, stay with the slot.
NextLatest ==
    \/ SendOTP("a@x.com", "100000", TRUE)
    \/ RegStart(1, "a@x.com", "100000", "secret-1")
    \/ RegFindByEmail(1)
    \/ RegUpdate(1)
    \/ RegCreate(1)
    \/ RequestPasswordReset("a@x.com", TRUE)
    \/ \E tk \in tokens : ResetPassword(tk, "secret-2")
    \/ Signin("a@x.com", "secret-1")
    \/ \E tk \in tokens :
          ChangePassword([scheme |-> "Bearer", token |-> tk], "secret-1", "secret-2")
    \/ \E tk \in tokens : UpdateProfile([scheme |-> "Bearer", token |-> tk], "Ann")
    \/ GoogleLogin(Profile("g-1", "a@x.com"))
    \/ \E d \in LatestDeltas : AuthTick(d)

SpecLatest == Init /\ [][NextLatest]_vars

(***************************************************************************)
(* Properties of the one-time-code service (checked under SpecOTP)         *)
(***************************************************************************)
TenMinutes == 10 * 60 * 1000

\* The step is a verifyOTP call for email e.
VerifyStep(e) == last'.op = "verify" /\ last'.email = e

\* C1 as stated: once three verify calls in a row have answered Mismatch (no
\* issue in between) and the challenge is still stored, the next verify for
\* that email answers Exhausted, whatever the candidate.
C1_AsStated ==
    [][\A e \in OtpEmails :
          (VerifyStep(e) /\ otpHist[e].mism = 3 /\ MapHas(otpStore, e))
              => last'.result = "Exhausted"]_vars

\* C1 amended: after three Mismatch answers in a row the next verify for that
\* email never answers Verified (nor Mismatch), even with the stored code: it
\* answers Exhausted while the challenge is unexpired (now <= expiry), Expired
\* once it has expired, and NotFound when the sweep has already removed it.
C1_FourthAttempt ==
    [][\A e \in OtpEmails :
          (VerifyStep(e) /\ otpHist[e].mism = 3)
              => last'.result =
                    IF ~MapHas(otpStore, e) THEN "NotFound"
                    ELSE IF now > otpStore[e].expiresAt THEN "Expired"
                    ELSE "Exhausted"]_vars

\* C1 witness: a verify with the stored code was answered Exhausted.
C1_Witness ==
    /\ last.op = "verify"
    /\ last.result = "Exhausted"
    /\ last.arg = otpHist[last.email].latest

\* C2 as stated: after a second issue for an email, verify with the code of the
\* first issue answers NotFound or Mismatch, never Verified.
C2_AsStated ==
    [][\A e \in OtpEmails :
          (VerifyStep(e) /\ otpHist[e].prev # "" /\ last'.arg = otpHist[e].prev)
              => last'.result \in {"NotFound", "Mismatch"}]_vars

\* C2 amended: an issue replaces whatever was stored by exactly the new
\* challenge (the new code, attempts = 0, expiry = issue time + 10 minutes), and
\* a verify is answered Verified only for the code issued last: the code of the
\* earlier issue is never Verified unless the two codes happen to be equal (it
\* gets Mismatch, or NotFound, Expired or Exhausted later on).
C2_LatestWins ==
    [][\A e \in OtpEmails :
          /\ (last'.op = "issue" /\ last'.email = e)
                => /\ MapHas(otpStore', e)
                   /\ otpStore'[e] = [otp |-> last'.arg, expiresAt |-> now + TenMinutes,
                                      attempts |-> 0]
          /\ (VerifyStep(e) /\ last'.result = "Verified")
                => last'.arg = otpHist[e].latest
          /\ (VerifyStep(e) /\ otpHist[e].prev # "" /\ last'.arg = otpHist[e].prev
                /\ otpHist[e].prev # otpHist[e].latest)
                => last'.result \in {"NotFound", "Mismatch", "Expired", "Exhausted"}]_vars

\* C2 witness: right after a second issue with a different code, the first code
\* was tried and answered Mismatch.
C2_Witness ==
    /\ last.op = "verify"
    /\ last.result = "Mismatch"
    /\ otpHist[last.email].prev = last.arg
    /\ otpHist[last.email].latest # last.arg
    /\ MapHas(otpStore, last.email)
    /\ otpStore[last.email].attempts = 1

\* C3: a stored challenge met one second before issued-at + 10 minutes with the
\* stored code and fewer than 3 attempts answers Verified; met one second after
\* issued-at + 10 minutes it answers Expired whatever the candidate.
C3_ExpiryBoundary ==
    [][\A e \in OtpEmails :
          (VerifyStep(e) /\ MapHas(otpStore, e))
              => /\ (/\ now = otpHist[e].issuedAt + TenMinutes - 1000
                     /\ last'.arg = otpStore[e].otp
                     /\ otpStore[e].attempts < 3)
                       => last'.result = "Verified"
                 /\ (now = otpHist[e].issuedAt + TenMinutes + 1000)
                       => last'.result = "Expired"]_vars

\* C3 witness: a verify one second before the ten minutes were over was
\* answered Verified.
C3_Witness ==
    /\ last.op = "verify"
    /\ last.result = "Verified"
    /\ last.age = TenMinutes - 1000

\* C4: a verify answered Verified leaves no challenge for that email; until the
\* next issue every later verify for it answers NotFound, so one issue is
\* answered Verified at most once.
C4_SingleUse ==
    [][\A e \in OtpEmails :
          /\ (VerifyStep(e) /\ last'.result = "Verified") => ~MapHas(otpStore', e)
          /\ (VerifyStep(e) /\ otpHist[e].wins >= 1) => last'.result = "NotFound"
          /\ otpHist'[e].wins <= 1]_vars

\* C4 witness: the code that was just verified is tried again and answered
\* NotFound.
C4_Witness ==
    /\ last.op = "verify"
    /\ last.result = "NotFound"
    /\ otpHist[last.email].wins = 1
    /\ last.arg = otpHist[last.email].latest

\* C5: every stored challenge has an attempt counter in 0..3.
C5_AttemptsBounded ==
    \A e \in DOMAIN otpStore : otpStore[e].attempts \in 0..3

\* C5 witness: a stored challenge whose counter stands at 3.
C5_Witness ==
    \E e \in DOMAIN otpStore : otpStore[e].attempts = 3

(***************************************************************************)
(* Properties of the rate limiter (checked under SpecRL)                   *)
(***************************************************************************)
\* C6: a request is let through exactly when it is the 1st, 2nd or 3rd request
\* of its client's one-minute window, whatever email it carries and in
\* whatever order the requests arrive; the 4th and later ones get 429, and the
\* first request after the window has elapsed opens a new window and is let
\* through.
C6_ThreePerWindow ==
    last.op = "rateLimit"
        => /\ (last.result = "next") <=> (rlHist[last.arg].seen <= 3)
           /\ (last.status = 429) <=> (rlHist[last.arg].seen > 3)

\* C6 witness: the first request of a new window is let through after the
\* window before it had refused a request.
C6_Witness ==
    /\ last.op = "rateLimit"
    /\ last.result = "next"
    /\ rlHist[last.arg].seen = 1
    /\ rlHist[last.arg].refusedBefore

(***************************************************************************)
(* Properties of tokens and password reset (checked under SpecAuth)        *)
(***************************************************************************)
\* C7 as stated: a token is accepted only by the operation its intent names:
\* resetPassword never accepts a token whose type is not 'password-reset', and
\* authenticateToken never lets a request through whose token carries a type
\* (a password-reset token is no session token).
C7_AsStated ==
    /\ (last.op = "resetPassword" /\ last.token.type # "password-reset")
          => last.status # 200
    /\ (last.op = "getProfile" /\ last.token.type # "none")
          => last.status # 200

\* C8 as stated: once resetPassword has succeeded with a token, every later
\* resetPassword with that token fails and leaves the users as they were.
C8_AsStated ==
    [][(last'.op = "resetPassword" /\ MapHas(spent, last'.token))
          => (last'.status # 200 /\ users' = users)]_vars

\* C8 amended: a successful resetPassword clears the user's resetPasswordToken
\* and resetPasswordExpires, and every later resetPassword with that token
\* fails and leaves the users as they were, until requestPasswordReset hands
\* out the very same token again (a request for the same user within the same
\* clock second signs the same claims and so yields the identical token).
C8_SingleUse ==
    [][last'.op = "resetPassword"
          => /\ last'.status = 200
                  => /\ users'[last'.token.userId].resetPasswordToken = NoToken
                     /\ users'[last'.token.userId].resetPasswordExpires = NullDate
             /\ (MapHas(spent, last'.token) /\ spent[last'.token])
                  => (last'.status # 200 /\ users' = users)]_vars

\* C8 witness: a reset token that had completed a reset, still unexpired and
\* correctly signed, was presented again and refused.
C8_Witness ==
    /\ last.op = "resetPassword"
    /\ last.status = 400
    /\ MapHas(spent, last.token)
    /\ spent[last.token]
    /\ VerifyToken(last.token, now)

\* C9 as stated: requestPasswordReset answers every non-empty email with the
\* same status and message, whether the email is unknown, belongs to an
\* account without a password or to one with a password, and whether or not
\* the mail could be sent.
C9_AsStated ==
    (last.op = "requestPasswordReset" /\ last.email # "")
        => (last.status = 200 /\ last.result = ResetRequested)

(***************************************************************************)
(* Properties of identity linking (checked under SpecLink)                 *)
(***************************************************************************)
\* Two calls of findOrCreateGoogleUser with the same profile have both returned.
BothDone(p, q) ==
    /\ p # q
    /\ link[p].pc = "done"
    /\ link[q].pc = "done"
    /\ link[p].profile = link[q].profile

NoSharedEmail ==
    \A i, j \in DOMAIN users : i # j => Lower(users[i].email) # Lower(users[j].email)

\* Slot p's Google call returns in this step through the email branch.
LinkedByEmail(p) ==
    /\ link[p].kind = "google"
    /\ link[p].pc = "saveLinked"
    /\ link'[p].pc = "done"
    /\ link'[p].res # 0

\* C11: in every reachable state no two user records share the same
\* case-normalised email, whatever the interleaving of signup completions and
\* Google logins; a Google login inserts a record only when no record has its
\* profile's email, and when it finds a record by that email it returns that
\* record with the Google id attached, verified, its password hash kept, and
\* no record added.
C11_UniqueEmail ==
    /\ []NoSharedEmail
    /\ [][\A p \in Slots :
            /\ (link[p].kind = "google" /\ link'[p].created /\ ~link[p].created)
                  => FindByEmail(users, link[p].profile.email) = 0
            /\ LinkedByEmail(p)
                  => /\ DOMAIN users' = DOMAIN users
                     /\ link'[p].res = link[p].doc
                     /\ users'[link[p].doc].googleId = link[p].profile.id
                     /\ users'[link[p].doc].isVerified
                     /\ users'[link[p].doc].password = users[link[p].doc].password
                     /\ users'[link[p].doc].email = Lower(link[p].profile.email)]_vars

\* C11 witness: a Google login has returned a password account, found by the
\* profile's email, which now holds both the password hash and the Google id,
\* while another record exists beside it.
C11_Witness ==
    \E p \in Slots :
        /\ link[p].kind = "google"
        /\ link[p].pc = "done"
        /\ link[p].res # 0
        /\ ~link[p].created
        /\ users[link[p].res].password # ""
        /\ users[link[p].res].googleId = link[p].profile.id
        /\ users[link[p].res].email = link[p].profile.email
        /\ users[link[p].res].isVerified
        /\ Cardinality(DOMAIN users) = 2

\* Slot p's call, having found no record for its email, attempts its insert in
\* this step.
InsertStep(p) ==
    /\ link[p].pc \in {"create", "regCreate"}
    /\ link'[p].pc = "done"
    /\ link[p].profile.email # ""

\* C12 as stated: when creators of the same email race, one inserts the record
\* and every other, whose insert meets the record inserted meanwhile, inserts
\* nothing and is answered with the conflict answer (400 'User with this email
\* already exists'), be it a signup completion or a Google login.
C12_AsStated ==
    [][\A p \in Slots :
          InsertStep(p)
              => IF FindByEmail(users, link[p].profile.email) = 0
                    /\ FindByGoogleId(users, link[p].profile.id) = 0
                 THEN link'[p].created /\ link'[p].status = 200
                 ELSE /\ ~link'[p].created
                      /\ users' = users
                      /\ link'[p].status = 400]_vars

(***************************************************************************)
(* Properties of the stored password (checked under SpecPwd)               *)
(***************************************************************************)
\* C13 as stated: after any run of signup completion, change-password and
\* reset completion, mixed with signin, profile update, linking and reset
\* requests, comparePassword(p) is true exactly for the password set last, and
\* the stored hash is never the plaintext; a user without password has none set.
C13_AsStated ==
    \A id \in DOMAIN users :
        IF users[id].password = ""
        THEN ~MapHas(pwSet, id)
        ELSE /\ MapHas(pwSet, id)
             /\ users[id].password # pwSet[id]
             /\ \A p \in PwdInputs : ComparePassword(users[id], p) <=> (p = pwSet[id])

(***************************************************************************)
(* Properties of signup completion (checked under SpecSignup)              *)
(***************************************************************************)
\* The stored challenge of email answers code with Verified at this moment:
\* present, not past its expiry, fewer than three attempts, the same code.
WouldVerify(email, code) ==
    /\ MapHas(otpStore, email)
    /\ now <= otpStore[email].expiresAt
    /\ otpStore[email].attempts < 3
    /\ otpStore[email].otp = code

\* C14: verifyOTPAndRegister creates or updates a user, or issues a token,
\* only if verifyOTP answered Verified for the submitted email and code in that
\* request; in every other case (NotFound, Expired, Exhausted, Mismatch, or
\* input refused before) the users are unchanged, no token is issued and the
\* answer is not a success.
C14_OnlyIfVerified ==
    [][last'.op = "register"
          => IF WouldVerify(last'.email, last'.arg)
             THEN last'.status = 200 => last'.token = GenerateToken(FindByEmail(users', last'.email), now)
             ELSE /\ users' = users
                  /\ tokens' = tokens
                  /\ last'.token = NoToken
                  /\ last'.status # 200]_vars

\* C14 witness: a signup completion was refused with Exhausted (three wrong
\* codes had been counted), leaving no user and no token.
C14_Witness ==
    /\ last.op = "register"
    /\ last.result = "Exhausted"
    /\ last.status = 400
    /\ users = EmptyMap
    /\ tokens = {}

(***************************************************************************)
(* Properties of signin (checked under SpecAuth)                           *)
(***************************************************************************)
\* The email has a user with a password, the candidate compares equal to it,
\* and the user is verified.
MaySignin(email, password) ==
    LET id == FindByEmail(users, email) IN
    /\ id # 0
    /\ users[id].password # ""
    /\ ComparePassword(users[id], password)
    /\ users[id].isVerified

\* C15: signin issues a session token only if the email maps to a user, that
\* user has a password, the candidate password verifies and the user is
\* verified; then lastLogin is set to the time of the call in the state in
\* which the token exists, and nothing else of the users changes. In every
\* other case no token is issued and the users, lastLogin included, are as
\* they were.
C15_Signin ==
    [][last'.op = "signin"
          => LET id == FindByEmail(users, last'.email) IN
             IF MaySignin(last'.email, last'.arg)
             THEN /\ last'.status = 200
                  /\ last'.token = GenerateToken(id, now)
                  /\ users' = [users EXCEPT ![id].lastLogin = now]
             ELSE /\ last'.status \in {400, 401, 403}
                  /\ last'.token = NoToken
                  /\ tokens' = tokens
                  /\ users' = users]_vars

\* C15 witness: a signin with a wrong password for an existing password
\* account was refused at a later time than the account's last login.
C15_Witness ==
    /\ last.op = "signin"
    /\ last.status = 401
    /\ FindByEmail(users, last.email) # 0
    /\ users[FindByEmail(users, last.email)].password # ""
    /\ users[FindByEmail(users, last.email)].lastLogin < now

(***************************************************************************)
(* Properties of the protected routes (checked under SpecProtected)        *)
(***************************************************************************)
\* The calls that go through authenticateToken first
ProtectedOps == {"getProfile", "updateProfile", "changePassword", "signout", "chatMongo"}

\* What authenticateToken answers itself, without calling next()
AuthRefusals ==
    {"Access token required", "Invalid or expired token", "User not found",
     "Email not verified. Please verify your email address."}

\* The request carries 'Bearer <token>' with a token that verifies now and
\* whose userId is a verified user.
Authenticated(call) ==
    /\ call.scheme = "Bearer"
    /\ call.token # NoToken
    /\ VerifyToken(call.token, now)
    /\ call.token.userId \in DOMAIN users
    /\ users[call.token.userId].isVerified

\* C16: the handler of a protected route (profile get and update, change
\* password, sign-out, the chat-mongo routes) runs only for a request with an
\* Authorization header 'Bearer <token>' whose token verifies, whose userId is
\* an existing user, and that user verified; every other request, one without
\* header or with another scheme among them, is answered by authenticateToken
\* itself, 401 for a missing or other header, and changes nothing.
C16_ProtectedRoutes ==
    [][last'.op \in ProtectedOps
          => IF Authenticated(last')
             THEN last'.result \notin AuthRefusals
             ELSE /\ last'.result \in AuthRefusals
                  /\ last'.status \in {401, 403}
                  /\ (last'.scheme # "Bearer" \/ last'.token = NoToken) => last'.status = 401
                  /\ UNCHANGED <<users, tokens, spent, pwSet>>]_vars

\* C16 witness: a change-password request whose header carries a valid
\* session token under another scheme than Bearer was answered 401.
C16_Witness ==
    /\ last.op = "changePassword"
    /\ last.scheme = "Basic"
    /\ last.token.type = "none"
    /\ VerifyToken(last.token, now)
    /\ last.status = 401
    /\ last.result = "Access token required"

(***************************************************************************)
(* Properties of token expiry (checked under SpecExpiry)                   *)
(***************************************************************************)
\* The clock in whole seconds, as the exp claim is compared
NowSeconds == now \div 1000

\* C17: a session token expires 7 days after its issue and a reset token 1
\* hour after its issue; a session token presented as 'Bearer' before its
\* expiry is accepted, and once the expiry of a token has passed every
\* operation it is presented to (the authentication check, reset completion)
\* rejects it and changes nothing.
C17_Expiry ==
    /\ [](\A tk \in tokens :
            tk.exp = tk.iat + (IF tk.type = "none" THEN 7 * 24 * 60 * 60 ELSE 60 * 60))
    /\ [][last'.op \in {"getProfile", "resetPassword"}
            => /\ NowSeconds >= last'.token.exp
                   => (last'.status \in {400, 401} /\ users' = users)
               /\ (last'.op = "getProfile" /\ last'.token.type = "none"
                     /\ NowSeconds < last'.token.exp)
                   => last'.status = 200]_vars

\* C17 witness: a session token was presented one second after its seven days
\* and refused.
C17_Witness ==
    /\ last.op = "getProfile"
    /\ last.token.type = "none"
    /\ last.token.key = "JWT_SECRET"
    /\ NowSeconds = last.token.exp + 1
    /\ last.status = 401
    /\ last.result = "Invalid or expired token"

(***************************************************************************)
(* Properties of the user records                                          *)
(***************************************************************************)
\* C18: in every reachable state every user record has a password hash or a
\* Google id (or both, once linked).
C18_PasswordOrGoogleId ==
    \A id \in DOMAIN users : users[id].password # "" \/ users[id].googleId # ""

\* C18 witness: a record created by a Google login, without password, beside a
\* record that holds both a password hash and a Google id.
C18_Witness ==
    \E i, j \in DOMAIN users :
        /\ users[i].password = ""
        /\ users[i].googleId # ""
        /\ users[j].password # ""
        /\ users[j].googleId # ""

\* C19: in every reachable state, for every user record resetPasswordToken
\* and resetPasswordExpires are both set or both null.
C19_ResetFieldsPaired ==
    \A id \in DOMAIN users :
        (users[id].resetPasswordToken = NoToken) <=> (users[id].resetPasswordExpires = NullDate)

\* C19 witness: a reset has just been completed for a user who had both
\* fields set; both are null again.
C19_Witness ==
    /\ last.op = "resetPassword"
    /\ last.status = 200
    /\ users[last.token.userId].resetPasswordToken = NoToken
    /\ users[last.token.userId].resetPasswordExpires = NullDate

(***************************************************************************)
(* Properties of the stored rate-limit counters (checked under SpecRL)     *)
(***************************************************************************)
\* C20 as stated: every stored count is at least 0, and in no reachable state
\* has the clock passed a counter's resetTime while its count is still the
\* non-zero count of the elapsed window.
C20_AsStated ==
    \A k \in DOMAIN otpRateLimit :
        /\ otpRateLimit[k].count >= 0
        /\ ~(now > otpRateLimit[k].resetTime /\ otpRateLimit[k].count > 0)

\* C20 amended: every stored count is between 1 and 3; the count of an
\* elapsed window stays in the store until the client's next request, which
\* is never judged against it: that request sets the count to zero, opens a
\* window of one minute from its own time, is let through and leaves the
\* count at 1. A request within the window leaves resetTime as it is and adds
\* one to a count below 3.
C20_LazyReset ==
    /\ [](\A k \in DOMAIN otpRateLimit : otpRateLimit[k].count \in 1..3)
    /\ [][\A k \in DOMAIN otpRateLimit :
            (last'.op = "rateLimit" /\ last'.arg = k)
                => IF now > otpRateLimit[k].resetTime
                   THEN /\ last'.status = 200
                        /\ otpRateLimit'[k] = [count |-> 1, resetTime |-> now + (60 * 1000)]
                   ELSE /\ otpRateLimit'[k].resetTime = otpRateLimit[k].resetTime
                        /\ otpRateLimit'[k].count =
                              IF otpRateLimit[k].count < 3 THEN otpRateLimit[k].count + 1 ELSE 3
                        /\ last'.status = IF otpRateLimit[k].count < 3 THEN 200 ELSE 429]_vars

\* C20 witness: the first request of a client after a window in which it had
\* been refused: let through, the count at 1, a fresh window.
C20_Witness ==
    \E k \in DOMAIN otpRateLimit :
        /\ last.op = "rateLimit"
        /\ last.arg = k
        /\ last.status = 200
        /\ rlHist[k].refusedBefore
        /\ otpRateLimit[k] = [count |-> 1, resetTime |-> now + (60 * 1000)]

(***************************************************************************)
(* Properties of the mails around signup (checked under SpecSignup)        *)
(***************************************************************************)
\* C21: a signup completion whose code verifies is answered with the success
\* payload, the user created (or updated) and verified and the session token
\* for that user, whether or not the welcome mail could be sent; the only other
\* answer to a verifying code is the refusal of a too short password, given
\* before the code is looked at.
C21_WelcomeBestEffort ==
    [][(last'.op = "register" /\ WouldVerify(last'.email, last'.arg))
          => LET id == FindByEmail(users', last'.email) IN
             \/ /\ last'.status = 400
                /\ last'.result = "Password must be at least 6 characters long"
                /\ users' = users
             \/ /\ last'.status = 200
                /\ last'.result = "Registration completed successfully"
                /\ id # 0
                /\ users'[id].isVerified
                /\ users'[id].password # ""
                /\ last'.token = GenerateToken(id, now)
                /\ last'.token \in tokens']_vars

\* C21 witness: a signup completion whose welcome mail failed was answered
\* with success, the user is there and verified.
C21_Witness ==
    /\ last.op = "register"
    /\ last.status = 200
    /\ last.welcome = "failed"
    /\ last.token = GenerateToken(FindByEmail(users, last.email), now)
    /\ users[FindByEmail(users, last.email)].isVerified

\* C22: sendOTP answers with its success payload only when the mail with the
\* code went out; when emailService.sendOTP fails the answer is the error
\* 'Failed to send OTP' (success: false).
C22_CodeSendFailureSurfaces ==
    (last.op = "sendOTP" /\ last.status \in {200, 500})
        => IF last.mail = "failed"
           THEN last.status = 500 /\ last.result = "Failed to send OTP"
           ELSE last.status = 200 /\ last.result = "OTP sent successfully"

\* C22 witness: a code request whose mail failed was answered 500.
C22_Witness ==
    /\ last.op = "sendOTP"
    /\ last.status = 500
    /\ last.mail = "failed"
    /\ last.result = "Failed to send OTP"

\* C23: sign-out changes no server state and revokes nothing: a sign-out
\* request, answered 200 or refused, leaves the users collection, the tokens
\* handed out, the challenge store and the rate-limit counters as they were;
\* and a protected call that presents, as Bearer, a token a sign-out was
\* answered 200 for is still let through to its handler for as long as the
\* token has not expired.
C23_SignoutRevokesNothing ==
    [][/\ last'.op = "signout"
           => UNCHANGED <<users, tokens, spent, pwSet, otpStore, otpRateLimit>>
       /\ (/\ last'.op \in ProtectedOps
           /\ last'.scheme = "Bearer"
           /\ last'.token \in signedOut
           /\ VerifyToken(last'.token, now'))
           => last'.result \notin AuthRefusals]_vars

\* C23 witness: a profile read answered 200 with a token a sign-out was
\* answered 200 for earlier.
C23_Witness ==
    /\ last.op = "getProfile"
    /\ last.status = 200
    /\ last.scheme = "Bearer"
    /\ last.token \in signedOut

\* The expiry times a challenge can carry in a run under SpecSweep
SweepExpiries ==
    {(k * (FiveMinutes \div 2)) + TenMinutes : k \in 0 .. ((2 * MaxTicks) + 1)}

\* The store holds, for email e, a challenge that expires at x.
Held(e, x) == MapHas(otpStore, e) /\ otpStore[e].expiresAt = x

\* C24: a pass of the sweep deletes every challenge whose expiry is before the
\* time of the pass and leaves every other challenge as it was, code, expiry
\* and attempts; and with the sweep firing every five minutes, every challenge
\* is eventually gone from the store: verified, replaced by a later issue for
\* its email, or removed as expired.
C24_SweepRemovesExpired ==
    /\ [][last'.op = "sweep"
            => \A e \in AllEmails :
                  IF MapHas(otpStore, e) /\ otpStore[e].expiresAt < now'
                  THEN ~MapHas(otpStore', e)
                  ELSE /\ MapHas(otpStore', e) <=> MapHas(otpStore, e)
                       /\ MapHas(otpStore, e) => otpStore'[e] = otpStore[e]]_vars
    /\ \A e \in OtpEmails, x \in SweepExpiries : Held(e, x) ~> ~Held(e, x)

\* C24 witness: a pass of the sweep that removed one email's expired challenge
\* and left another email's challenge, not yet expired, in the store.
C24_Witness ==
    /\ last.op = "sweep"
    /\ last.result = "cleaned"
    /\ \E e \in OtpEmails : MapHas(otpStore, e) /\ otpStore[e].expiresAt >= now

\* C25: a change-password request sets the new password only if the
\* authenticated user has a password and the current password supplied with
\* the request verifies against it; every other request, one for an account
\* with no password (Google only) or one with a current password that does not
\* verify among them, is refused and leaves every user's stored hash as it
\* was.
C25_ChangePassword ==
    [][last'.op = "changePassword"
          => IF last'.status = 200
             THEN LET id == last'.token.userId IN
                  /\ users[id].password # ""
                  /\ ComparePassword(users[id], last'.current)
                  /\ users'[id].password = Hash(last'.arg)
             ELSE /\ \A id \in DOMAIN users : users'[id].password = users[id].password
                  /\ DOMAIN users' = DOMAIN users
                  /\ last'.status \in {400, 401, 403, 500}]_vars

\* C25 witness: a change-password request answered 200: the account's stored
\* hash is that of the new password, which is not the current one it came with.
C25_Witness ==
    /\ last.op = "changePassword"
    /\ last.status = 200
    /\ last.current # last.arg
    /\ users[last.token.userId].password = Hash(last.arg)

\* C26: a reset-password request sets the new password only if the token it
\* presents verifies and carries the intent 'password-reset', the user the
\* token names exists, the reset token stored on that user is the presented
\* one, and the expiry stored with it is later than now; every other request is
\* refused and leaves every user's hash, stored reset token and stored expiry
\* as they were.
C26_ResetCompletion ==
    [][last'.op = "resetPassword"
          => IF last'.status = 200
             THEN LET tk == last'.token
                      id == tk.userId IN
                  /\ VerifyToken(tk, now)
                  /\ tk.type = "password-reset"
                  /\ FindById(users, id) # 0
                  /\ users[id].resetPasswordToken = tk
                  /\ users[id].resetPasswordExpires > now
                  /\ users'[id].password = Hash(last'.arg)
             ELSE /\ DOMAIN users' = DOMAIN users
                  /\ \A id \in DOMAIN users :
                        /\ users'[id].password = users[id].password
                        /\ users'[id].resetPasswordToken = users[id].resetPasswordToken
                        /\ users'[id].resetPasswordExpires = users[id].resetPasswordExpires]_vars

\* C26 witness: a reset-password request answered 200 some time after the
\* token was issued; the account then verifies the new password.
C26_Witness ==
    /\ last.op = "resetPassword"
    /\ last.status = 200
    /\ last.token.iat < NowSeconds
    /\ ComparePassword(users[last.token.userId], last.arg)

\* C27 as stated: a comparison of the password that fails internally counts as
\* a password that does not match: a signin for an account with a password,
\* and a change-password request of such an account that got past
\* authenticateToken and the tests of its input, are then answered as for a
\* wrong password, 401 'Invalid email or password' and 400 'Current password
\* is incorrect', and never with 500.
C27_AsStated ==
    /\ (/\ last.op = "signin"
        /\ FindByEmail(users, last.email) # 0
        /\ users[FindByEmail(users, last.email)].password # ""
        /\ ComparePasswordThrows(users[FindByEmail(users, last.email)], last.arg))
           => (last.status = 401 /\ last.result = "Invalid email or password")
    /\ (/\ last.op = "changePassword"
        /\ last.result \notin AuthRefusals
        /\ users[last.token.userId].password # ""
        /\ ComparePasswordThrows(users[last.token.userId], last.current))
           => (last.status = 400 /\ last.result = "Current password is incorrect")

\* C28: a verify answered Mismatch leaves the challenge of its email in the
\* store with the attempt counter one higher and the code and the expiry as
\* they were; and no verify, whatever it answers, touches the challenge of
\* another email ("A@x.com" and "a@x.com" are two emails to the store).
C28_MismatchCountsOnce ==
    [][\A e \in OtpEmails :
          VerifyStep(e)
              => /\ last'.result = "Mismatch"
                    => /\ MapHas(otpStore, e) /\ MapHas(otpStore', e)
                       /\ otpStore'[e].attempts = otpStore[e].attempts + 1
                       /\ otpStore'[e].otp = otpStore[e].otp
                       /\ otpStore'[e].expiresAt = otpStore[e].expiresAt
                 /\ \A f \in AllEmails \ {e} :
                       /\ MapHas(otpStore', f) <=> MapHas(otpStore, f)
                       /\ MapHas(otpStore, f) => otpStore'[f] = otpStore[f]]_vars

\* C28 witness: a second failed attempt for one email, answered Mismatch, while
\* the other email's challenge stands untouched at no attempt.
C28_Witness ==
    /\ last.op = "verify"
    /\ last.result = "Mismatch"
    /\ last.attempts = 1
    /\ otpStore[last.email].attempts = 2
    /\ \E f \in OtpEmails \ {last.email} : MapHas(otpStore, f) /\ otpStore[f].attempts = 0

\* C29: verifyOTP looks for the challenge first, then at its expiry, then at
\* its attempt counter: without a challenge the answer is NotFound; with an
\* expired one it is Expired, also when the counter already stands at 3; with
\* an unexpired one whose counter stands at 3 it is Exhausted. Expired and
\* Exhausted both delete the challenge, and a verify for the same email that
\* comes next is answered NotFound.
C29_CheckOrder ==
    [][\A e \in OtpEmails :
          VerifyStep(e)
              => /\ IF ~MapHas(otpStore, e)
                    THEN last'.result = "NotFound" /\ otpStore' = otpStore
                    ELSE IF now > otpStore[e].expiresAt
                    THEN last'.result = "Expired" /\ ~MapHas(otpStore', e)
                    ELSE IF otpStore[e].attempts >= 3
                    THEN last'.result = "Exhausted" /\ ~MapHas(otpStore', e)
                    ELSE last'.result \in {"Verified", "Mismatch"}
                 /\ (/\ last.op = "verify"
                     /\ last.email = e
                     /\ last.result \in {"Expired", "Exhausted"})
                       => last'.result = "NotFound"]_vars

\* C29 witness: a verify answered Expired for a challenge whose counter stood
\* at 3 when the call came in.
C29_Witness ==
    /\ last.op = "verify"
    /\ last.result = "Expired"
    /\ last.attempts = 3
    /\ ~MapHas(otpStore, last.email)

\* C30: a request that rateLimitOTP refuses leaves its client's count and
\* resetTime as they were (a refusal does not extend the window); a request,
\* let through or refused, leaves the counters of every other client as they
\* were; and no stored count is ever above 3.
C30_RefusalChangesNothing ==
    /\ [](\A k \in DOMAIN otpRateLimit : otpRateLimit[k].count <= 3)
    /\ [][last'.op = "rateLimit"
            => /\ last'.status = 429
                  => /\ MapHas(otpRateLimit, last'.arg)
                     /\ MapHas(otpRateLimit', last'.arg)
                     /\ otpRateLimit'[last'.arg] = otpRateLimit[last'.arg]
               /\ \A j \in Clients \ {last'.arg} :
                     /\ MapHas(otpRateLimit', j) <=> MapHas(otpRateLimit, j)
                     /\ MapHas(otpRateLimit, j) => otpRateLimit'[j] = otpRateLimit[j]]_vars

\* C30 witness: a request refused some time into its client's window, the
\* count at 3 and the window still the one opened by the first request, while
\* another client has a window of its own.
C30_Witness ==
    /\ last.op = "rateLimit"
    /\ last.status = 429
    /\ otpRateLimit[last.arg].count = 3
    /\ otpRateLimit[last.arg].resetTime < now + (60 * 1000)
    /\ \E j \in DOMAIN otpRateLimit : j # last.arg /\ otpRateLimit[j].count < 3

(***************************************************************************)
(* Properties of the send-otp route (checked under SpecRequest)            *)
(***************************************************************************)
\* C31: the send-otp route stores a challenge only when rateLimitOTP let the
\* request through, the email is a valid one and no verified account has it;
\* a request the limiter refuses (429), one with an invalid email and one for
\* the email of a verified account (400 each) leave the challenge store as it
\* was.
C31_IssueOnlyPastLimiter ==
    [][last'.op = "sendOTP"
          => LET allowed == RateLimitOTP(otpRateLimit, last'.client, now).allowed
                 existing == FindByEmail(users, last'.email)
                 verified == existing # 0 /\ users[existing].isVerified
             IN  /\ last'.status \in {200, 500}
                    <=> (allowed /\ last'.email # "" /\ ~verified)
                 /\ last'.status \notin {200, 500} => otpStore' = otpStore
                 /\ ~allowed => last'.status = 429
                 /\ (allowed /\ (last'.email = "" \/ verified)) => last'.status = 400]_vars

\* C31 witness: a request refused with 429 while the store holds a challenge
\* for its email, under another code than the request would have stored.
C31_Witness ==
    /\ last.op = "sendOTP"
    /\ last.status = 429
    /\ MapHas(otpStore, last.email)
    /\ otpStore[last.email].otp # last.arg

\* C32 as stated: two emails that findByEmail resolves to the same user, that
\* is, emails that differ in the case of their letters only, have one
\* challenge between them: the store never holds an entry for each.
C32_AsStated ==
    \A e \in DOMAIN otpStore, f \in DOMAIN otpStore : Lower(e) = Lower(f) => e = f

(***************************************************************************)
(* Properties of signup completion against accounts that exist already     *)
(* (checked under SpecSignup)                                              *)
(***************************************************************************)
\* C33 as stated: a signup completion leaves the stored password of every user
\* that is verified when the completion comes in as it was.
C33_AsStated ==
    [][last'.op = "register"
          => \A id \in DOMAIN users :
                users[id].isVerified => users'[id].password = users[id].password]_vars

(***************************************************************************)
(* Properties of linking (checked under SpecLink)                          *)
(***************************************************************************)
\* C34 as stated: a googleId that is set on a user is never changed: no step
\* gives a user that has one another one, so a user found by a googleId once
\* is found by it ever after.
C34_AsStated ==
    [][\A id \in DOMAIN users :
          users[id].googleId # "" => users'[id].googleId = users[id].googleId]_vars

(***************************************************************************)
(* Properties of the accounts (checked under SpecPwd)                      *)
(***************************************************************************)
\* C35: every user in the collection is verified, and neither signin nor
\* authenticateToken, in front of a protected route, ever answers with its
\* 403 'Email not verified'.
C35_AllVerified ==
    /\ \A id \in DOMAIN users : users[id].isVerified
    /\ last.op \in ({"signin"} \cup ProtectedOps)
          => /\ last.status # 403
             /\ last.result # "Email not verified. Please verify your email address."

\* C35 witness: a signin answered 200 for an account that a signup completion
\* and a Google login have both written to.
C35_Witness ==
    /\ last.op = "signin"
    /\ last.status = 200
    /\ users[last.token.userId].googleId # ""
    /\ users[last.token.userId].isVerified

(***************************************************************************)
(* Properties of overlapping reset completions (checked under SpecReset)   *)
(***************************************************************************)
\* C36 as stated: of two reset-password requests that present the same token,
\* however their reads and writes interleave, at most one is answered 200, and
\* the account then verifies the password that request submitted.
C36_AsStated ==
    \A p \in Slots, q \in Slots :
        (/\ p # q
         /\ link[p].kind = "reset" /\ link[q].kind = "reset"
         /\ link[p].token = link[q].token
         /\ link[p].pc = "done" /\ link[q].pc = "done")
            => ~(link[p].status = 200 /\ link[q].status = 200)

(***************************************************************************)
(* Further properties of the send-otp route (checked under SpecRequest)    *)
(***************************************************************************)
\* C37 as stated: a send-otp request whose mail could not be sent (answered
\* 500) leaves the challenge store as it was before the request, so the code
\* delivered before for that email is still the stored one.
C37_AsStated ==
    [][(last'.op = "sendOTP" /\ last'.status = 500) => otpStore' = otpStore]_vars

(***************************************************************************)
(* Properties of the input checks of signup completion (checked under      *)
(* SpecValidate)                                                           *)
(***************************************************************************)
\* The completion that the step made lacks a field or carries a password of
\* fewer than 6 characters.
Incomplete(call) ==
    /\ call.op = "register"
    /\ (call.email = "" \/ call.arg = "" \/ Len(call.password) < 6)

\* C38: a signup completion that lacks the email, the code or the password, or
\* whose password has fewer than 6 characters, is answered 400 by the input
\* checks without verifyOTP being called: the challenge store, attempt
\* counters included, and the users are as they were; and every completion
\* with complete input does go to verifyOTP.
C38_ValidationBeforeVerify ==
    [][last'.op = "register"
          => IF Incomplete(last')
             THEN /\ last'.status = 400
                  /\ last'.result \notin Outcomes
                  /\ otpStore' = otpStore
                  /\ users' = users
             ELSE last'.status = 200 \/ last'.result \in Outcomes]_vars

\* C38 witness: a completion with the right code and a password too short,
\* after a failed attempt: the challenge still stands at one attempt.
C38_Witness ==
    /\ last.op = "register"
    /\ last.result = "Password must be at least 6 characters long"
    /\ MapHas(otpStore, last.email)
    /\ otpStore[last.email].otp = last.arg
    /\ otpStore[last.email].attempts = 1

(***************************************************************************)
(* Properties of signup completions whose save fails (checked under        *)
(* SpecLink)                                                               *)
(***************************************************************************)
\* C39 as stated: when a signup completion got Verified from verifyOTP and the
\* save of the user then fails, the challenge for its email is in the store
\* afterwards, to be used again.
C39_AsStated ==
    [][\A p \in Slots :
          (/\ link[p].kind = "signup"
           /\ link[p].pc \in {"regCreate", "regUpdate"}
           /\ link'[p].pc = "done"
           /\ link'[p].status # 200)
              => MapHas(otpStore', link[p].profile.email)]_vars

(***************************************************************************)
(* Properties of repeated reset requests (checked under SpecLatest)        *)
(***************************************************************************)
\* The step is a call of the handler op taken in one piece (the steps of the
\* slots leave last alone and change link).
HandlerStep(op) == last'.op = op /\ link' = link

\* The step is a reset request that stored a token and mailed it.
ResetRequestStep ==
    /\ HandlerStep("requestPasswordReset")
    /\ last'.arg = "password"
    /\ last'.status = 200

\* signin, change password, profile update and linking leave the stored reset
\* token and its expiry as they were.
ResetFieldsKept ==
    (\E op \in {"signin", "changePassword", "updateProfile", "google"} : HandlerStep(op))
        => \A id \in DOMAIN users :
              /\ users'[id].resetPasswordToken = users[id].resetPasswordToken
              /\ users'[id].resetPasswordExpires = users[id].resetPasswordExpires

\* C40 as stated: after a second successful reset request for the same user, a
\* completion with the token of the first request is rejected, and signin,
\* change password, profile update and linking leave the stored reset token
\* and expiry unchanged.
C40_AsStated ==
    [][/\ ResetRequestStep =>
             LET first == users[last'.token.userId].resetPasswordToken IN
             (first # NoToken /\ first \in tokens)
                 => ResetPasswordOutcome(users', first, "secret-2", now').status # 200
       /\ ResetFieldsKept]_vars

\* C40: a successful reset request stores the token it mailed, and a token it
\* replaced, when the two differ (they were issued in different seconds), no
\* longer completes a reset; a completion succeeds only with the token stored
\* for the user; signin, change password, profile update and linking leave the
\* stored reset token and its expiry unchanged.
C40_LatestWins ==
    [][/\ ResetRequestStep =>
             LET id == last'.token.userId
                 first == users[id].resetPasswordToken
             IN
             /\ users'[id].resetPasswordToken = last'.token
             /\ (first # NoToken /\ first # last'.token)
                    => ResetPasswordOutcome(users', first, "secret-2", now').status # 200
       /\ (HandlerStep("resetPassword") /\ last'.status = 200)
             => last'.token = users[last'.token.userId].resetPasswordToken
       /\ ResetFieldsKept]_vars

\* C40 witness: a completion with a mailed reset token that is still good by
\* its signature and expiry is answered 400, a later reset token being stored
\* for the user.
C40_Witness ==
    /\ last.op = "resetPassword"
    /\ last.status = 400
    /\ last.token \in tokens
    /\ last.token.type = "password-reset"
    /\ VerifyToken(last.token, now)
    /\ users[last.token.userId].resetPasswordToken \in tokens
    /\ users[last.token.userId].resetPasswordToken.iat > last.token.iat

====
